---- MODULE Spec2Model ----
(***************************************************************************)
(* Model of the demand-forecasting engine of InventoryMS                   *)
(* (src/forecasting.py) together with the data-access calls it makes       *)
(* (src/models.py, src/database.py) and the two routes that call it        *)
(* (src/app.py).                                                           *)
(*                                                                         *)
(* Numbers.  The engine computes on IEEE doubles.  Here a number is an     *)
(* integer count of millionths (ONE = 1.0), so that the program's          *)
(* constants alpha = 0.3 and 1e-6 are exact; products and quotients are    *)
(* truncated to a millionth.  The one non-finite value the engine can      *)
(* produce for non-negative observations, 0.0/0.0 = nan, is the value NaN, *)
(* and the comparisons, min and max treat it as Python does.               *)
(***************************************************************************)
EXTENDS Integers, Sequences, FiniteSets, TLC

(***************************************************************************)
(* Bounds of the model                                                     *)
(***************************************************************************)
MaxQty == 3          \* largest monthly quantity in an enumerated history
MaxLen == 3          \* longest history enumerated exhaustively
MaxSpikeLen == 7     \* longest history of the shape <<a, 0, ..., 0, b>>
MaxBlock == 2        \* longest block repeated to build a long history
MaxPeriods == 2      \* largest forecast horizon requested
MaxDay == 2          \* number of calendar days "now" is drawn from
MaxRequests == 2     \* number of concurrent forecast-generation requests
MaxHorizon == 3   \* periods of a direct call of a forecast method
MaxCalls == 2     \* number of update_stock calls
MaxChange == 2    \* largest quantity_change of an update_stock call
MaxStock == 3     \* largest current_stock of a stock_levels row
MaxOrders == 2    \* number of create_order_with_items calls
MaxItems == 2     \* largest number of items of an order
MaxQuantity == 2  \* largest quantity of an order item
MaxPrice == 2     \* largest unit_price of an order item
MaxRows == 2      \* largest number of rows of a seeded table
MaxSeeds == 2     \* largest number of INSERT statements of the schema file
MaxRuns == 2      \* number of initialize_schema runs

(***************************************************************************)
(* Fixed-point numbers                                                     *)
(***************************************************************************)
K == 10 ^ 3
ONE == K * K
\* a value outside the range of every number the engine computes here
NaN == 2000 * ONE + 1
\* the infinities: Inf above and -Inf below every finite number
Inf == 2000 * ONE

Abs(x) == IF x < 0 THEN -x ELSE x
Sgn(x) == IF x < 0 THEN -1 ELSE 1

\* <<q, r>> with a*b = q*ONE + r and 0 <= r < ONE, for a, b >= 0, computed
\* from the halves a = a1*K + a0, b = b1*K + b0 without forming a*b
MulQR(a, b) ==
    LET a1 == a \div K
        a0 == a % K
        b1 == b \div K
        b0 == b % K
        mid == a1 * b0 + a0 * b1
        low == a0 * b0
    IN <<a1 * b1 + ((mid + (low \div K)) \div K),
         (((mid + (low \div K)) % K) * K) + (low % K)>>

\* <<q, r>> with a*b = q*c + r and 0 <= r < c, for a, b >= 0 and c > 0,
\* computed without forming the product a*b
RECURSIVE MulDivQR(_, _, _)
MulDivQR(a, b, c) ==
    IF b = 0 THEN <<0, 0>>
    ELSE LET h == MulDivQR(a, b \div 2, c)
             add == IF b % 2 = 1 THEN a ELSE 0
             r == 2 * h[2] + (add % c)
         IN <<2 * h[1] + (add \div c) + (r \div c), r % c>>

\* a*b/c truncated toward zero
MulDiv(a, b, c) ==
    LET q == IF c = ONE THEN MulQR(Abs(a), Abs(b))[1]
             ELSE IF Abs(a) < Abs(b) THEN MulDivQR(Abs(b), Abs(a), Abs(c))[1]
             ELSE MulDivQR(Abs(a), Abs(b), Abs(c))[1]
    IN Sgn(a) * Sgn(b) * Sgn(c) * q

IsNaN(x) == x = NaN
IsInf(x) == x = Inf \/ x = -Inf

\* float arithmetic: any operation on nan is nan, 0.0/0.0 is nan and x/0.0 is
\* an infinity for x # 0 (numpy warns and goes on); the engine never adds
\* infinities of opposite sign or multiplies one by zero
FNeg(a) == IF IsNaN(a) THEN NaN ELSE -a
FAbs(a) == IF IsNaN(a) THEN NaN ELSE Abs(a)
FAdd(a, b) == IF IsNaN(a) \/ IsNaN(b) THEN NaN
              ELSE IF IsInf(a) THEN a
              ELSE IF IsInf(b) THEN b
              ELSE a + b
FSub(a, b) == FAdd(a, FNeg(b))
FMul(a, b) == IF IsNaN(a) \/ IsNaN(b) THEN NaN
              ELSE IF IsInf(a) \/ IsInf(b) THEN Sgn(a) * Sgn(b) * Inf
              ELSE MulDiv(a, b, ONE)
FDiv(a, b) == IF IsNaN(a) \/ IsNaN(b) THEN NaN
              ELSE IF b = 0 THEN (IF a = 0 THEN NaN ELSE Sgn(a) * Inf)
              ELSE IF IsInf(a) THEN Sgn(a) * Sgn(b) * Inf
              ELSE IF IsInf(b) THEN 0
              ELSE MulDiv(a, ONE, b)
\* every comparison with nan is false
FLt(a, b) == ~IsNaN(a) /\ ~IsNaN(b) /\ a < b

\* Python's min(a, b) and max(a, b): the first argument unless the second
\* is strictly smaller (larger)
PyMin(a, b) == IF FLt(b, a) THEN b ELSE a
PyMax(a, b) == IF FLt(a, b) THEN b ELSE a

Num(n) == n * ONE

RECURSIVE Sum(_)
Sum(s) == IF s = <<>> THEN 0 ELSE Head(s) + Sum(Tail(s))

RECURSIVE FSum(_)
FSum(s) == IF s = <<>> THEN 0 ELSE FAdd(Head(s), FSum(Tail(s)))

\* numpy.mean, numpy.var, numpy.diff, numpy.sqrt, numpy.std
Mean(s) == LET t == FSum(s)
           IN IF IsNaN(t) \/ IsInf(t) THEN t ELSE t \div Len(s)
Sq(x) == FMul(x, x)
DevSq(s, m) == [i \in 1..Len(s) |-> Sq(Abs(s[i] - m))]
Var(s) == Mean(DevSq(s, Mean(s)))
Diff(s) == [i \in 1..(Len(s) - 1) |-> s[i + 1] - s[i]]

\* the largest s in lo..hi whose square is at most x (s*s <= x*ONE in millionths)
RECURSIVE SqrtIn(_, _, _)
SqrtIn(x, lo, hi) ==
    IF lo >= hi THEN lo
    ELSE LET mid == lo + ((hi - lo + 1) \div 2)
             sq == MulQR(mid, mid)
         IN IF sq[1] < x \/ (sq[1] = x /\ sq[2] = 0) THEN SqrtIn(x, mid, hi)
                                                      ELSE SqrtIn(x, lo, mid - 1)
Sqrt(x) == SqrtIn(x, 0, IF x < ONE THEN ONE ELSE x)
Std(s) == Sqrt(Var(s))

\* the multiple of unit nearest to x, as a count of units, ties to the even
\* count: Python's round(x) for unit = ONE, round(x, 2) for unit = ONE/100
RoundHalfEven(x, unit) ==
    LET q == Abs(x) \div unit
        r == Abs(x) % unit
        up == 2 * r > unit \/ (2 * r = unit /\ q % 2 = 1)
    IN Sgn(x) * (IF up THEN q + 1 ELSE q)
\* round(x, 2); nan and the infinities round to themselves
Round2(x) == IF IsNaN(x) \/ IsInf(x) THEN x
             ELSE RoundHalfEven(x, ONE \div 100) * (ONE \div 100)

\* data[-k:] for 0 < k
LastN(s, k) == IF k >= Len(s) THEN s ELSE SubSeq(s, Len(s) - k + 1, Len(s))
\* faulty variant of Repeat: one value whatever the horizon
RepeatOnce(v, n) == <<v>>

\* [value] * periods
Repeat(v, n) == [i \in 1..n |-> v]

(***************************************************************************)
(* ForecastingEngine: the four methods and the ensemble                    *)
(***************************************************************************)
\* the attributes of the ForecastingEngine instance
VARIABLE engine
\* ForecastingEngine.__init__
NewEngine ==
    [moving_average_window |-> 3, exponential_smoothing_alpha |-> 300000]
moving_average_window == engine.moving_average_window
exponential_smoothing_alpha == engine.exponential_smoothing_alpha
\* faulty variant of EngineAfter: exponential smoothing adapts its alpha
EngineAfterAdaptive(e, op) ==
    IF op = "exponential_smoothing"
    THEN [e EXCEPT !.exponential_smoothing_alpha = @ \div 2]
    ELSE e
\* the attributes after operation op has run: no operation of the engine
\* assigns to an attribute of self
EngineAfter(e, op) == e
EPS == 1
SEASON_LENGTH == 12

\* the (None, 0) result of a method; isNone tells None from an empty list
NotApplicable ==
    [raised |-> FALSE, isNone |-> TRUE, forecast |-> <<>>, confidence |-> 0]
Applicable(f, c) ==
    [raised |-> FALSE, isNone |-> FALSE, forecast |-> f, confidence |-> c]
\* an exception on its way out of a block of a method
MethodRaised ==
    [raised |-> TRUE, isNone |-> TRUE, forecast |-> <<>>, confidence |-> 0]
\* "if forecast:" is false for None and for the empty list
Truthy(r) == ~r.isNone /\ r.forecast # <<>>

\* faulty variant of Clamp: min(100, x), the lower limit forgotten
ClampUpperOnly(x) == PyMin(Num(100), x)

\* max(0, min(100, x))
Clamp(x) == PyMax(0, PyMin(Num(100), x))

\* faulty variant of moving_average_forecast: the forecast repeats the
\* first moving average, ma_values[0]
MovingAverageFirstWindow(data, periods) ==
    IF Len(data) < moving_average_window THEN NotApplicable
    ELSE LET w == moving_average_window
             first_ma == Mean(SubSeq(data, 1, w))
             recent_variance == Var(LastN(data, w))
             confidence == Clamp(FSub(Num(100),
                               FMul(FDiv(recent_variance, Mean(LastN(data, w))),
                                    Num(50))))
         IN Applicable(Repeat(first_ma, periods), confidence)

moving_average_forecast(data, periods) ==
    IF Len(data) < moving_average_window THEN NotApplicable
    ELSE LET w == moving_average_window
             ma_values == [j \in 1..(Len(data) - w + 1) |->
                              Mean(SubSeq(data, j, j + w - 1))]
             last_ma == ma_values[Len(ma_values)]
             forecasts == Repeat(last_ma, periods)
             recent_variance == Var(LastN(data, w))
             confidence == Clamp(FSub(Num(100),
                               FMul(FDiv(recent_variance, Mean(LastN(data, w))),
                                    Num(50))))
         IN Applicable(forecasts, confidence)

\* faulty variant of Smoothed: the weights of the observation and of the
\* previous smoothed value are exchanged
RECURSIVE SmoothedSwapped(_, _)
SmoothedSwapped(data, k) ==
    IF k = 1 THEN <<data[1]>>
    ELSE LET prev == SmoothedSwapped(data, k - 1)
         IN Append(prev, FMul(ONE - exponential_smoothing_alpha, data[k])
                         + FMul(exponential_smoothing_alpha, prev[k - 1]))

\* smoothed[0..k-1] of the smoothing loop
RECURSIVE Smoothed(_, _)
Smoothed(data, k) ==
    IF k = 1 THEN <<data[1]>>
    ELSE LET prev == Smoothed(data, k - 1)
         IN Append(prev, FMul(exponential_smoothing_alpha, data[k])
                         + FMul(ONE - exponential_smoothing_alpha, prev[k - 1]))

\* lines 53-65, with smoothed the list built by lines 45-51
SmoothingWith(data, periods, smoothed) ==
    LET last_smoothed == smoothed[Len(smoothed)]
        forecasts == Repeat(last_smoothed, periods)
        recent == LastN(data, IF Len(data) < 6 THEN Len(data) ELSE 6)
        recent_trend == Mean(Diff(recent))
        trend_stability == ONE - FDiv(Abs(recent_trend), Mean(recent) + EPS)
        confidence == Clamp(FMul(trend_stability, Num(100)))
    IN Applicable(forecasts, confidence)

\* faulty variant of exponential_smoothing_forecast: it asks for 3 points
ExponentialSmoothingNeedsThree(data, periods) ==
    IF Len(data) < 3 THEN NotApplicable
    ELSE SmoothingWith(data, periods, Smoothed(data, Len(data)))

exponential_smoothing_forecast(data, periods) ==
    IF Len(data) < 2 THEN NotApplicable
    ELSE SmoothingWith(data, periods, Smoothed(data, Len(data)))

\* numpy.polyfit(arange(n), y, 1): the least-squares <<slope, intercept>>,
\* with x - mean(x) = cx/2 for the integer cx = 2x - (n-1)
PolyFit1(y) ==
    LET n == Len(y)
        cx(i) == 2 * (i - 1) - (n - 1)
        sxy == Sum([i \in 1..n |-> cx(i) * y[i]])
        sxx == Sum([i \in 1..n |-> cx(i) * cx(i)])
        slope == MulDiv(sxy, 2, sxx)
        intercept == Mean(y) - MulDiv(slope, n - 1, 2)
    IN <<slope, intercept>>

\* faulty variant of TrendWith: the forecast values are not floored at 0
TrendWithNoFloor(data, periods, coeffs) ==
    LET n == Len(data)
        slope == coeffs[1]
        intercept == coeffs[2]
        forecasts == [i \in 1..periods |-> slope * (n + i - 1) + intercept]
        y_pred == [i \in 1..n |-> slope * (i - 1) + intercept]
        ss_res == Sum([i \in 1..n |-> Sq(data[i] - y_pred[i])])
        ss_tot == Sum(DevSq(data, Mean(data)))
        r_squared == IF ss_tot # 0 THEN ONE - FDiv(ss_res, ss_tot) ELSE 0
        confidence == Clamp(FMul(r_squared, Num(100)))
    IN Applicable(forecasts, confidence)

\* faulty variant of TrendWith: future_x = len(data) + i, one step too far
TrendWithNextX(data, periods, coeffs) ==
    LET n == Len(data)
        slope == coeffs[1]
        intercept == coeffs[2]
        forecasts == [i \in 1..periods |->
                         PyMax(0, slope * (n + i) + intercept)]
        y_pred == [i \in 1..n |-> slope * (i - 1) + intercept]
        ss_res == Sum([i \in 1..n |-> Sq(data[i] - y_pred[i])])
        ss_tot == Sum(DevSq(data, Mean(data)))
        r_squared == IF ss_tot # 0 THEN ONE - FDiv(ss_res, ss_tot) ELSE 0
        confidence == Clamp(FMul(r_squared, Num(100)))
    IN Applicable(forecasts, confidence)

\* lines 80-94, with coeffs the result of polyfit
TrendWith(data, periods, coeffs) ==
    LET n == Len(data)
        slope == coeffs[1]
        intercept == coeffs[2]
        forecasts == [i \in 1..periods |->
                         PyMax(0, slope * (n + i - 1) + intercept)]
        y_pred == [i \in 1..n |-> slope * (i - 1) + intercept]
        ss_res == Sum([i \in 1..n |-> Sq(data[i] - y_pred[i])])
        ss_tot == Sum(DevSq(data, Mean(data)))
        r_squared == IF ss_tot # 0 THEN ONE - FDiv(ss_res, ss_tot) ELSE 0
        confidence == Clamp(FMul(r_squared, Num(100)))
    IN Applicable(forecasts, confidence)

trend_analysis_forecast(data, periods) ==
    IF Len(data) < 3 THEN NotApplicable
    ELSE TrendWith(data, periods, PolyFit1(data))

\* data[month::season_length], month counted from 0
Stride(data, month, season_length) ==
    LET cnt == IF month >= Len(data) THEN 0
               ELSE ((Len(data) - month - 1) \div season_length) + 1
    IN [k \in 1..cnt |-> data[month + (k - 1) * season_length + 1]]

\* the pattern after the loop has run for month = 0 .. m-1
RECURSIVE SeasonalPattern(_, _, _)
SeasonalPattern(data, m, season_length) ==
    IF m = 0 THEN <<>>
    ELSE LET prev == SeasonalPattern(data, m - 1, season_length)
             month_data == Stride(data, m - 1, season_length)
         IN IF month_data # <<>> THEN Append(prev, Mean(month_data)) ELSE prev

\* faulty variant of SeasonalWith: the slot of step i is one further
SeasonalWithNextSlot(data, periods, season_length, seasonal_pattern) ==
    LET n == Len(data)
        seasonal_index(i) == (n + i + 1) % season_length
        base_forecast == IF n >= season_length
                         THEN Mean(LastN(data, season_length))
                         ELSE Mean(data)
        pattern_mean == Mean(seasonal_pattern)
        seasonal_factor(i) ==
            IF pattern_mean > 0
            THEN FDiv(seasonal_pattern[seasonal_index(i) + 1], pattern_mean)
            ELSE ONE
        forecasts == [i \in 1..periods |->
                         FMul(base_forecast, seasonal_factor(i - 1))]
        seasonal_consistency ==
            ONE - FDiv(Std(seasonal_pattern), pattern_mean + EPS)
        confidence == Clamp(FMul(seasonal_consistency, Num(100)))
        \* a modulo by 0 raises ZeroDivisionError, an index outside the
        \* pattern IndexError
        raises == \/ season_length = 0
                  \/ seasonal_pattern = <<>>
                  \/ \E i \in 0..(periods - 1) :
                        seasonal_index(i) >= Len(seasonal_pattern)
    IN IF raises THEN MethodRaised ELSE Applicable(forecasts, confidence)

\* lines 113-125, with the seasonal pattern built by lines 107-111
SeasonalWith(data, periods, season_length, seasonal_pattern) ==
    LET n == Len(data)
        seasonal_index(i) == (n + i) % season_length
        base_forecast == IF n >= season_length
                         THEN Mean(LastN(data, season_length))
                         ELSE Mean(data)
        pattern_mean == Mean(seasonal_pattern)
        seasonal_factor(i) ==
            IF pattern_mean > 0
            THEN FDiv(seasonal_pattern[seasonal_index(i) + 1], pattern_mean)
            ELSE ONE
        forecasts == [i \in 1..periods |->
                         FMul(base_forecast, seasonal_factor(i - 1))]
        seasonal_consistency ==
            ONE - FDiv(Std(seasonal_pattern), pattern_mean + EPS)
        confidence == Clamp(FMul(seasonal_consistency, Num(100)))
        \* a modulo by 0 raises ZeroDivisionError, an index outside the
        \* pattern IndexError
        raises == \/ season_length = 0
                  \/ seasonal_pattern = <<>>
                  \/ \E i \in 0..(periods - 1) :
                        seasonal_index(i) >= Len(seasonal_pattern)
    IN IF raises THEN MethodRaised ELSE Applicable(forecasts, confidence)

\* lines 127-129: except Exception: return None, 0
SeasonalExcept(r) == IF r.raised THEN NotApplicable ELSE r

\* lines 101-103, before the try block: pd.date_range(start='2020-01-01',
\* periods=len(data), freq='M') raises once a month end lies after the last
\* Timestamp, 2262-04-11, i.e. for more than 242 years and 3 months
DateRangeRaises(n) == n > 242 * 12 + 3

seasonal_forecast(data, periods, season_length) ==
    IF Len(data) < season_length * 2 THEN NotApplicable
    ELSE IF DateRangeRaises(Len(data)) THEN MethodRaised
    ELSE SeasonalExcept(
             SeasonalWith(data, periods, season_length,
                          SeasonalPattern(data, season_length, season_length)))

\* the season lengths of the calls: the default, and 0
SeasonLengths == {0, SEASON_LENGTH}

\* the methods in the order the ensemble calls them
EnsembleMembers ==
    <<"moving_average", "exponential_smoothing", "trend_analysis", "seasonal">>

RunMethod(m, data, periods) ==
    CASE m = "moving_average" -> moving_average_forecast(data, periods)
      [] m = "exponential_smoothing" -> exponential_smoothing_forecast(data, periods)
      [] m = "trend_analysis" -> trend_analysis_forecast(data, periods)
      [] m = "seasonal" -> seasonal_forecast(data, periods, SEASON_LENGTH)

\* the forecasts and confidences dicts of ensemble_forecast as the sequence
\* of their entries, in insertion order: a method enters them only under
\* "if <m>_forecast:"
\* "if <m>_forecast:" adds the result r of method m to the two dicts
AddMethod(d, m, r) ==
    IF Truthy(r)
    THEN Append(d, [method |-> m, forecast |-> r.forecast,
                    confidence |-> r.confidence])
    ELSE d

\* the dicts after the first k methods have run
RECURSIVE DictsAfter(_, _, _)
DictsAfter(k, data, periods) ==
    IF k = 0 THEN <<>>
    ELSE AddMethod(DictsAfter(k - 1, data, periods), EnsembleMembers[k],
                   RunMethod(EnsembleMembers[k], data, periods))

EnsembleDicts(data, periods) == DictsAfter(Len(EnsembleMembers), data, periods)

\* faulty variant of EnsembleCombine: the plain mean of the forecasts
EnsembleCombineUnweighted(d, periods) ==
    LET confidences == [k \in 1..Len(d) |-> d[k].confidence]
        total_weight == Sum(confidences)
        ensemble == [i \in 1..periods |->
                        Mean([k \in 1..Len(d) |-> d[k].forecast[i]])]
        avg_confidence == Mean(confidences)
    IN IF d = <<>> THEN NotApplicable
       ELSE IF total_weight = 0 THEN NotApplicable
       ELSE Applicable(ensemble, avg_confidence)

\* faulty variant of EnsembleCombine: with a total weight of 0 it falls
\* back to the first contributing forecast
EnsembleCombineZeroFallback(d, periods) ==
    LET confidences == [k \in 1..Len(d) |-> d[k].confidence]
        total_weight == Sum(confidences)
        weight == [k \in 1..Len(d) |-> FDiv(confidences[k], total_weight)]
        ensemble == [i \in 1..periods |->
                        Sum([k \in 1..Len(d) |->
                                FMul(d[k].forecast[i], weight[k])])]
        avg_confidence == Mean(confidences)
    IN IF d = <<>> THEN NotApplicable
       ELSE IF total_weight = 0 THEN Applicable(d[1].forecast, 0)
       ELSE Applicable(ensemble, avg_confidence)

\* faulty variant of EnsembleCombine: the confidence is averaged over all
\* four methods, a method without forecast counting as 0
EnsembleCombineAllMembersMean(d, periods) ==
    LET confidences == [k \in 1..Len(d) |-> d[k].confidence]
        total_weight == Sum(confidences)
        weight == [k \in 1..Len(d) |-> FDiv(confidences[k], total_weight)]
        ensemble == [i \in 1..periods |->
                        Sum([k \in 1..Len(d) |->
                                FMul(d[k].forecast[i], weight[k])])]
        avg_confidence == total_weight \div 4
    IN IF d = <<>> THEN NotApplicable
       ELSE IF total_weight = 0 THEN NotApplicable
       ELSE Applicable(ensemble, avg_confidence)

\* ensemble_forecast from line 157 on, given the two dicts
EnsembleCombine(d, periods) ==
    LET confidences == [k \in 1..Len(d) |-> d[k].confidence]
        total_weight == Sum(confidences)
        weight == [k \in 1..Len(d) |-> FDiv(confidences[k], total_weight)]
        ensemble == [i \in 1..periods |->
                        Sum([k \in 1..Len(d) |->
                                FMul(d[k].forecast[i], weight[k])])]
        avg_confidence == Mean(confidences)
    IN IF d = <<>> THEN NotApplicable
       ELSE IF total_weight = 0 THEN NotApplicable
       ELSE Applicable(ensemble, avg_confidence)

ensemble_forecast(data, periods) ==
    EnsembleCombine(EnsembleDicts(data, periods), periods)

(***************************************************************************)
(* The data-access collaborator: sales_history rows of one (product,       *)
(* warehouse) pair, one total per calendar month, oldest first, the last   *)
(* one being the current month; a month without sales has no row, which    *)
(* the entry NoRow stands for                                              *)
(***************************************************************************)
NoRow == 0 - 1
Qty == 0..MaxQty
LongLens == {SEASON_LENGTH, 2 * SEASON_LENGTH, 2 * SEASON_LENGTH + 3}

SeqsUpTo(S, n) == UNION {[1..k -> S] : k \in 0..n}
Spike(a, b, n) == [i \in 1..n |-> IF i = 1 THEN a ELSE IF i = n THEN b ELSE 0]
RepeatBlock(b, n) == [i \in 1..n |-> b[((i - 1) % Len(b)) + 1]]

\* n months without sales
Gap(n) == [i \in 1..n |-> NoRow]
\* a year of sales that ended 25 months ago, followed by the recent months
\* `tail`: all 12 old rows are within 36 months, none within 24 months
OldYear(b, tail) ==
    RepeatBlock(b, SEASON_LENGTH) \o Gap(2 * SEASON_LENGTH + 1 - Len(tail)) \o tail

\* the worked inputs: a constant series and a perfect line
Examples == {<<10, 10, 10, 10, 10>>, <<1, 2, 3, 4>>}

Histories ==
    SeqsUpTo(Qty, MaxLen)
    \cup Examples
    \cup {Spike(a, b, n) : a \in Qty, b \in Qty, n \in (MaxLen + 1)..MaxSpikeLen}
    \cup {RepeatBlock(b, n) : b \in SeqsUpTo({0, 1, MaxQty}, MaxBlock) \ {<<>>},
                              n \in LongLens}
    \cup {OldYear(b, tail) : b \in SeqsUpTo({0, 1, MaxQty}, MaxBlock) \ {<<>>},
                             tail \in {<<>>, <<1, MaxQty>>, <<1, MaxQty, 1>>}}

\* Database._normalize_value: a Decimal total becomes a float
normalize_value(q) == Num(q)

\* ForecastingData.get_sales_history: the totals of the months not older
\* than `months` months, i.e. of at most months + 1 calendar months
RECURSIVE WithRow(_)
WithRow(s) ==
    IF s = <<>> THEN <<>>
    ELSE IF Head(s) = NoRow THEN WithRow(Tail(s))
    ELSE <<Head(s)>> \o WithRow(Tail(s))
NormalizeRows(s) == [i \in 1..Len(s) |-> normalize_value(s[i])]
get_sales_history(rows, months) ==
    NormalizeRows(WithRow(LastN(rows, months + 1)))

\* the calendar: a day is counted from 1 January of a common year
MonthLengths == <<31, 28, 31, 30, 31, 30, 31, 31, 30, 31, 30, 31>>
RECURSIVE DayOfMonthFrom(_, _)
DayOfMonthFrom(d, m) ==
    IF d < MonthLengths[m] THEN d + 1
    ELSE DayOfMonthFrom(d - MonthLengths[m], (m % 12) + 1)
DayOfMonth(d) == DayOfMonthFrom(d, 1)
\* datetime.replace(day=1)
ReplaceDay1(d) == d - (DayOfMonth(d) - 1)
Nows == {20 * k : k \in 0..MaxDay}

PRODUCT_ID == 1
WAREHOUSE_ID == 1
MethodNames ==
    {"moving_average", "exponential_smoothing", "trend_analysis", "seasonal",
     "ensemble"}
\* the method argument is an unchecked string of the request; "arima" stands
\* for every name outside MethodNames
MethodArgs == MethodNames \cup {"arima"}
FetchOutcomes == {"ok", "raise"}

\* lines 193-203: the if/elif chain, whose else branch is the ensemble
Dispatch(method, quantities, periods) ==
    IF method = "moving_average"
    THEN moving_average_forecast(quantities, periods)
    ELSE IF method = "exponential_smoothing"
    THEN exponential_smoothing_forecast(quantities, periods)
    ELSE IF method = "trend_analysis"
    THEN trend_analysis_forecast(quantities, periods)
    ELSE IF method = "seasonal"
    THEN seasonal_forecast(quantities, periods, SEASON_LENGTH)
    ELSE ensemble_forecast(quantities, periods)

\* what a call of an engine operation gives its caller: the pair (value,
\* message), value being None when isNone, or an exception when raised;
\* fetched lists the lookbacks of the get_sales_history calls it made, and
\* predicted is the list `predicted` of evaluate_forecast_accuracy (line 254)
Failure(message) ==
    [raised |-> FALSE, isNone |-> TRUE, value |-> <<>>, message |-> message,
     fetched |-> <<>>, predicted |-> <<>>]
Success(value, message) ==
    [raised |-> FALSE, isNone |-> FALSE, value |-> value, message |-> message,
     fetched |-> <<>>, predicted |-> <<>>]
Raised ==
    [raised |-> TRUE, isNone |-> TRUE, value |-> <<>>, message |-> "",
     fetched |-> <<>>, predicted |-> <<>>]
\* r came after a get_sales_history call with this lookback
Fetched(months, r) == [r EXCEPT !.fetched = <<months>> \o r.fetched]
\* try: ... except Exception as e: return None, f"<prefix>: {str(e)}"
\* faulty variant of TryExcept: the exception is not caught
TryExceptReraise(r, message) == r

TryExcept(r, message) ==
    IF r.raised THEN [Failure(message) EXCEPT !.fetched = r.fetched] ELSE r

\* faulty variant of ForecastRecords: period_end is the next period_start
ForecastRecordsInclusiveEnd(forecast, confidence, method, now) ==
    LET start_date == ReplaceDay1(now)
    IN [k \in 1..Len(forecast) |->
          LET period_start == start_date + 30 * (k - 1)
              period_end == period_start + 30
          IN [product_id |-> PRODUCT_ID,
              warehouse_id |-> WAREHOUSE_ID,
              period_start |-> period_start,
              period_end |-> period_end,
              predicted_demand |-> RoundHalfEven(forecast[k], ONE),
              forecast_method |-> method,
              confidence_level |-> Round2(confidence)]]

\* lines 208-226: one record per element of the forecast
ForecastRecords(forecast, confidence, method, now) ==
    LET start_date == ReplaceDay1(now)
    IN [k \in 1..Len(forecast) |->
          LET period_start == start_date + 30 * (k - 1)
              period_end == period_start + 29
          IN [product_id |-> PRODUCT_ID,
              warehouse_id |-> WAREHOUSE_ID,
              period_start |-> period_start,
              period_end |-> period_end,
              predicted_demand |-> RoundHalfEven(forecast[k], ONE),
              forecast_method |-> method,
              confidence_level |-> Round2(confidence)]]

\* faulty variant of ForecastResult: a method without forecast yields a
\* record of demand 0
ForecastResultZeroFill(r, method, now) ==
    IF r.isNone
    THEN Success(ForecastRecords(<<0>>, 0, method, now),
                 "Forecast generated successfully")
    ELSE Success(ForecastRecords(r.forecast, r.confidence, method, now),
                 "Forecast generated successfully")

\* lines 205-228: the forecast r of the selected method becomes the result
ForecastResult(r, method, now) ==
    IF r.isNone
    THEN Failure("Forecasting failed")
    ELSE Success(ForecastRecords(r.forecast, r.confidence, method, now),
                 "Forecast generated successfully")

\* faulty variant of GenerateFrom: the test for fewer than 3 observations
\* is left to the methods
GenerateFromNoLengthCheck(sales_data, periods, method, now) ==
    IF sales_data = <<>>
    THEN Failure("No sales history available")
    ELSE ForecastResult(Dispatch(method, sales_data, periods), method, now)

\* lines 184-228: generate_forecast once the history is fetched
GenerateFrom(sales_data, periods, method, now) ==
    IF sales_data = <<>>
    THEN Failure("No sales history available")
    ELSE IF Len(sales_data) < 3
    THEN Failure("Insufficient data for forecasting")
    ELSE ForecastResult(Dispatch(method, sales_data, periods), method, now)

\* faulty variant of GenerateBody: a raising fetch is tried a second time
GenerateBodyRetry(rows, fetch, periods, method, now) ==
    IF fetch = "raise"
    THEN Fetched(24, Fetched(24, Raised))
    ELSE Fetched(24, GenerateFrom(get_sales_history(rows, 24), periods, method, now))

\* lines 181-228: the body of the try block; fetch is what the call of
\* get_sales_history does
GenerateBody(rows, fetch, periods, method, now) ==
    Fetched(24, IF fetch = "raise" THEN Raised
                ELSE GenerateFrom(get_sales_history(rows, 24), periods, method, now))

\* ForecastingEngine.generate_forecast
generate_forecast(rows, fetch, periods, method, now) ==
    TryExcept(GenerateBody(rows, fetch, periods, method, now),
              "Error generating forecast: <exception>")

\* lines 264-270: the metrics dict
MetricsDict(mae, mse, mape) ==
    [mae |-> Round2(mae),
     mse |-> Round2(mse),
     rmse |-> Round2(Sqrt(mse)),
     mape |-> Round2(mape),
     accuracy_score |-> PyMax(0, FSub(Num(100), mape))]

\* lines 257-270: the metrics of the predicted against the test values
AccuracyMetrics(test_data, predicted) ==
    LET n == Len(test_data)
        err == [i \in 1..n |-> test_data[i] - predicted[i]]
    IN MetricsDict(Mean([i \in 1..n |-> Abs(err[i])]),
                   Mean([i \in 1..n |-> Sq(err[i])]),
                   FMul(Mean([i \in 1..n |-> FAbs(FDiv(err[i], test_data[i]))]),
                        Num(100)))

\* faulty variant of EvaluateFrom: the forecast is generated before the
\* number of observations is tested
EvaluateFromGenerateFirst(sales_data, forecast) ==
    IF forecast.isNone \/ forecast.value = <<>>
    THEN [Failure("Could not generate forecast for evaluation")
            EXCEPT !.fetched = forecast.fetched]
    ELSE IF Len(sales_data) < 12
    THEN [Failure("Insufficient data for evaluation")
            EXCEPT !.fetched = forecast.fetched]
    ELSE [Success(AccuracyMetrics(LastN(sales_data, 12),
                                  [i \in 1..Len(forecast.value) |->
                                      Num(forecast.value[i].predicted_demand)]),
                  "Evaluation completed")
            EXCEPT !.fetched = forecast.fetched]

\* faulty variant of EvaluateFrom: a missing forecast is taken as a
\* forecast of 0 for every month
EvaluateFromZeroForecast(sales_data, forecast) ==
    IF Len(sales_data) < 12
    THEN Failure("Insufficient data for evaluation")
    ELSE IF forecast.isNone \/ forecast.value = <<>>
    THEN [Success(AccuracyMetrics(LastN(sales_data, 12), [i \in 1..12 |-> 0]),
                  "Evaluation completed")
            EXCEPT !.fetched = forecast.fetched]
    ELSE [Success(AccuracyMetrics(LastN(sales_data, 12),
                                  [i \in 1..Len(forecast.value) |->
                                      Num(forecast.value[i].predicted_demand)]),
                  "Evaluation completed")
            EXCEPT !.fetched = forecast.fetched]

\* faulty variant of EvaluateFrom: the test data are the first 12
\* observations
EvaluateFromFirstTwelve(sales_data, forecast) ==
    IF Len(sales_data) < 12
    THEN Failure("Insufficient data for evaluation")
    ELSE IF forecast.isNone \/ forecast.value = <<>>
    THEN [Failure("Could not generate forecast for evaluation")
            EXCEPT !.fetched = forecast.fetched]
    ELSE [Success(AccuracyMetrics(SubSeq(sales_data, 1, 12),
                                  [i \in 1..Len(forecast.value) |->
                                      Num(forecast.value[i].predicted_demand)]),
                  "Evaluation completed")
            EXCEPT !.fetched = forecast.fetched]

\* line 254: predicted = [record['predicted_demand'] for record in forecast]
PredictedDemand(forecast) ==
    [i \in 1..Len(forecast) |-> Num(forecast[i].predicted_demand)]

\* lines 240-272: evaluate_forecast_accuracy once the history is fetched;
\* forecast is the result of the generate_forecast call of line 248
EvaluateFrom(sales_data, forecast) ==
    IF Len(sales_data) < 12
    THEN Failure("Insufficient data for evaluation")
    ELSE IF forecast.isNone \/ forecast.value = <<>>
    THEN [Failure("Could not generate forecast for evaluation")
            EXCEPT !.fetched = forecast.fetched]
    ELSE [Success(AccuracyMetrics(LastN(sales_data, 12),
                                  PredictedDemand(forecast.value)),
                  "Evaluation completed")
            EXCEPT !.fetched = forecast.fetched,
                   !.predicted = PredictedDemand(forecast.value)]

\* the train slice sales_data[:-12] (line 244)
TrainData(sales_data) == SubSeq(sales_data, 1, Len(sales_data) - 12)

\* faulty variant of EvaluateBody: the forecast is made from the train slice
EvaluateBodyFromTrain(rows, fetch36, fetch24, method, now) ==
    Fetched(36,
        IF fetch36 = "raise" THEN Raised
        ELSE IF Len(get_sales_history(rows, 36)) < 12
        THEN Failure("Insufficient data for evaluation")
        ELSE EvaluateFrom(get_sales_history(rows, 36),
                          Fetched(24, GenerateFrom(TrainData(get_sales_history(rows, 36)),
                                                   12, method, now))))

\* lines 237-272: the body of the try block; fetch36 and fetch24 are what
\* its own get_sales_history call and the one of generate_forecast do
EvaluateBody(rows, fetch36, fetch24, method, now) ==
    Fetched(36, IF fetch36 = "raise" THEN Raised
                ELSE EvaluateFrom(get_sales_history(rows, 36),
                                  generate_forecast(rows, fetch24, 12, method, now)))

\* ForecastingEngine.evaluate_forecast_accuracy
evaluate_forecast_accuracy(rows, fetch36, fetch24, method, now) ==
    TryExcept(EvaluateBody(rows, fetch36, fetch24, method, now),
              "Error evaluating forecast: <exception>")

(***************************************************************************)
(* The route layer (src/app.py)                                            *)
(***************************************************************************)
Response(status, success, body) ==
    [status |-> status, success |-> success, body |-> body]
MissingIds == Response(400, FALSE, "Missing product_id or warehouse_id")

\* app.py lines 336-346: the records save_forecast has inserted when the
\* handler returns; saveFail = k > 0 makes the k-th save_forecast call raise
SavedRecords(r, saveFail) ==
    IF r.raised \/ r.isNone \/ r.value = <<>> THEN <<>>
    ELSE IF saveFail = 0 THEN r.value
    ELSE SubSeq(r.value, 1, saveFail - 1)

\* faulty variant of GenerateResponse: an exception of save_forecast is
\* swallowed
GenerateResponseSaveUnchecked(r, saveFail) ==
    IF r.raised THEN Response(500, FALSE, "<exception>")
    ELSE IF r.isNone \/ r.value = <<>> THEN Response(400, FALSE, r.message)
    ELSE Response(200, TRUE, r.message)

\* app.py lines 332-346: the response to POST /forecast/generate, r being
\* what generate_forecast did
GenerateResponse(r, saveFail) ==
    IF r.raised THEN Response(500, FALSE, "<exception>")
    ELSE IF r.isNone \/ r.value = <<>> THEN Response(400, FALSE, r.message)
    ELSE IF saveFail # 0 THEN Response(500, FALSE, "<exception>")
    ELSE Response(200, TRUE, r.message)

\* app.py lines 360-370: the response to POST /forecast/evaluate
EvaluateResponse(r) ==
    IF r.raised THEN Response(500, FALSE, "<exception>")
    ELSE IF r.isNone THEN Response(400, FALSE, r.message)
    ELSE Response(200, TRUE, r.message)

(***************************************************************************)
(* The state machine: with the stored history, a caller calls one forecast *)
(* method, or a client posts one request, and takes the result             *)
(***************************************************************************)
VARIABLES sales, call, ret, dicts, saved, resp
\* the forecasting_data table and the requests in progress, when requests
\* run concurrently
VARIABLES store, reqs
\* the first direct call of a forecast method and its result
VARIABLE first
\* the tables stock_levels and warehouses, and the update_stock calls made
VARIABLES stock_levels, warehouses, calls
\* the tables orders and order_items, and the last create_order_with_items call
VARIABLES orders, order_items, order_call
\* the number of rows of the tables the schema file seeds, and the
\* initialize_schema runs
VARIABLES tables, schema_call
vars == <<engine, sales, call, ret, dicts, saved, resp, store, reqs, first,
          stock_levels, warehouses, calls, orders, order_items, order_call,
          tables, schema_call>>
concurrentVars == <<store, reqs>>
forecastVars == <<engine, sales, call, ret, dicts, saved, resp, store, reqs, first>>
stockVars == <<stock_levels, warehouses, calls>>
orderVars == <<orders, order_items, order_call>>
schemaVars == <<tables, schema_call>>
inventoryVars == <<stockVars, orderVars, schemaVars>>

\* the inventory tables before any call
WarehouseIds == {WAREHOUSE_ID, WAREHOUSE_ID + 1}
NoOrderCall == [pc |-> "idle", order_id |-> 0, items_data |-> <<>>, created |-> 0]
OrdersIdle ==
    /\ orders = <<>>
    /\ order_items = <<>>
    /\ order_call = NoOrderCall
SeedTables == {"vendors", "products"}
NotCounted == [counted |-> FALSE, rows |-> 0]
NoSchemaCall ==
    [runs |-> 0, raised |-> FALSE, file |-> FALSE, seed_pairs |-> <<>>,
     counts |-> [t \in SeedTables |-> NotCounted], executed |-> {}]
SchemaIdle ==
    /\ tables = [t \in SeedTables |-> 0]
    /\ schema_call = NoSchemaCall
StockIdle ==
    /\ stock_levels = {}
    /\ warehouses = [w \in WarehouseIds |-> 0]
    /\ calls = <<>>
InventoryIdle ==
    /\ StockIdle
    /\ OrdersIdle
    /\ SchemaIdle
Idle == [op |-> "idle"]
NoResult == [isNone |-> TRUE]
NoDicts == <<>>
NoResponse == [status |-> 0]
NoCall == [op |-> "none"]

Init ==
    /\ sales \in Histories
    /\ call = Idle
    /\ ret = NoResult
    /\ dicts = NoDicts
    /\ saved = <<>>
    /\ resp = NoResponse
    /\ engine = NewEngine
    /\ store = <<>>
    /\ reqs = <<>>
    /\ first = NoCall
    /\ InventoryIdle

\* a direct call of one of the four methods on the stored history
CallMethod(m) ==
    /\ call.op = "idle"
    /\ \E periods \in 1..MaxHorizon :
         LET data == get_sales_history(sales, 36)
         IN /\ call' = [op |-> m, periods |-> periods, data |-> data]
            /\ ret' = RunMethod(m, data, periods)
    /\ engine' = EngineAfter(engine, m)
    /\ UNCHANGED <<sales, dicts, saved, resp, concurrentVars, first, inventoryVars>>

MovingAverageForecast == CallMethod("moving_average")
ExponentialSmoothingForecast == CallMethod("exponential_smoothing")
TrendAnalysisForecast == CallMethod("trend_analysis")
\* a direct call of seasonal_forecast, whose third parameter is the season
\* length
SeasonalForecast ==
    /\ call.op = "idle"
    /\ \E periods \in 1..MaxHorizon, season_length \in SeasonLengths :
         LET data == get_sales_history(sales, 36)
         IN /\ call' = [op |-> "seasonal", periods |-> periods, data |-> data,
                        season_length |-> season_length]
            /\ ret' = seasonal_forecast(data, periods, season_length)
    /\ engine' = EngineAfter(engine, "seasonal")
    /\ UNCHANGED <<sales, dicts, saved, resp, concurrentVars, first, inventoryVars>>

EnsembleForecast ==
    /\ call.op = "idle"
    /\ \E periods \in 1..MaxPeriods :
         LET data == get_sales_history(sales, 36)
         IN /\ call' = [op |-> "ensemble", periods |-> periods, data |-> data]
            /\ dicts' = EnsembleDicts(data, periods)
            /\ ret' = EnsembleCombine(dicts', periods)
    /\ engine' = EngineAfter(engine, "ensemble")
    /\ UNCHANGED <<sales, saved, resp, concurrentVars, first, inventoryVars>>

\* a request without product_id or warehouse_id is answered before the
\* engine is called (app.py lines 329-330 and 357-358)
RejectRequest ==
    /\ call.op = "idle"
    /\ \E route \in {"/forecast/generate", "/forecast/evaluate"} :
         call' = [op |-> "rejected", route |-> route]
    /\ resp' = MissingIds
    /\ UNCHANGED <<engine, sales, ret, dicts, saved, concurrentVars, first, inventoryVars>>

\* POST /forecast/generate with both ids: app.generate_forecast
PostForecastGenerate ==
    /\ call.op = "idle"
    /\ \E method \in MethodArgs, periods \in 1..MaxPeriods,
          fetch \in FetchOutcomes, now \in Nows :
         /\ call' = [op |-> "generate_forecast", method |-> method,
                     periods |-> periods, fetch |-> fetch, now |-> now]
         /\ ret' = generate_forecast(sales, fetch, periods, method, now)
    /\ \E saveFail \in 0..Len(ret'.value) :
         /\ saved' = SavedRecords(ret', saveFail)
         /\ resp' = GenerateResponse(ret', saveFail)
    /\ engine' = EngineAfter(engine, "generate_forecast")
    /\ UNCHANGED <<sales, dicts, concurrentVars, first, inventoryVars>>

\* POST /forecast/evaluate with both ids: app.evaluate_forecast
PostForecastEvaluate ==
    /\ call.op = "idle"
    /\ \E method \in MethodArgs, fetch36 \in FetchOutcomes,
          fetch24 \in FetchOutcomes, now \in Nows :
         /\ call' = [op |-> "evaluate_forecast_accuracy", method |-> method,
                     fetch |-> fetch36, fetch24 |-> fetch24]
         /\ ret' = evaluate_forecast_accuracy(sales, fetch36, fetch24, method, now)
    /\ resp' = EvaluateResponse(ret')
    /\ engine' = EngineAfter(engine, "evaluate_forecast_accuracy")
    /\ UNCHANGED <<sales, dicts, saved, concurrentVars, first, inventoryVars>>

\* the caller takes the result
Return ==
    /\ call.op # "idle"
    /\ call' = Idle
    /\ ret' = NoResult
    /\ dicts' = NoDicts
    /\ saved' = <<>>
    /\ resp' = NoResponse
    /\ UNCHANGED <<engine, sales, concurrentVars, first, inventoryVars>>

Next ==
    \/ MovingAverageForecast
    \/ ExponentialSmoothingForecast
    \/ TrendAnalysisForecast
    \/ SeasonalForecast
    \/ EnsembleForecast
    \/ RejectRequest
    \/ PostForecastGenerate
    \/ PostForecastEvaluate
    \/ Return

Spec == Init /\ [][Next]_vars

(***************************************************************************)
(* Concurrent forecast-generation requests: each request runs the engine   *)
(* and then saves its records one INSERT at a time (the connection is in   *)
(* autocommit mode, database.py line 24), and the INSERTs of different     *)
(* requests interleave                                                     *)
(***************************************************************************)
ConcurrentHistories == {<<>>} \cup [1..MaxLen -> {1, MaxQty}]
ConcurrentMethods == {"moving_average", "trend_analysis"}
ProductIds == {PRODUCT_ID, PRODUCT_ID + 1}

\* the records of generate_forecast(product_id, ...), line 217
RecordsFor(product_id, records) ==
    [i \in 1..Len(records) |-> [records[i] EXCEPT !.product_id = product_id]]

\* faulty variant of Insert: one forecast is kept per product, warehouse
\* and period, a new one replacing the old one
InsertOrReplace(table, data) ==
    IF \E j \in 1..Len(table) :
          /\ table[j].data.product_id = data.product_id
          /\ table[j].data.warehouse_id = data.warehouse_id
          /\ table[j].data.period_start = data.period_start
    THEN [j \in 1..Len(table) |->
            IF /\ table[j].data.product_id = data.product_id
               /\ table[j].data.warehouse_id = data.warehouse_id
               /\ table[j].data.period_start = data.period_start
            THEN [table[j] EXCEPT !.data = data]
            ELSE table[j]]
    ELSE Append(table, [forecast_id |-> Len(table) + 1, data |-> data])

\* BaseModel.create('forecasting_data', data):
\* INSERT INTO forecasting_data (...) VALUES (...) RETURNING forecast_id
Insert(table, data) ==
    Append(table, [forecast_id |-> Len(table) + 1, data |-> data])

\* app.py lines 332-336: the request after the call of the engine, r being
\* the result of generate_forecast
NewRequest(product_id, r) ==
    [records |-> RecordsFor(product_id, r.value),
     done |-> 0,
     status |-> IF r.isNone \/ r.value = <<>> THEN 400 ELSE 0]

ConcurrentInit ==
    /\ sales \in ConcurrentHistories
    /\ call = Idle
    /\ ret = NoResult
    /\ dicts = NoDicts
    /\ saved = <<>>
    /\ resp = NoResponse
    /\ engine = NewEngine
    /\ store = <<>>
    /\ reqs = <<>>
    /\ first = NoCall
    /\ InventoryIdle

\* a request arrives and calls the engine
StartRequest ==
    /\ Len(reqs) < MaxRequests
    /\ \E product_id \in ProductIds, method \in ConcurrentMethods,
          periods \in 1..MaxPeriods :
         reqs' = Append(reqs,
                        NewRequest(product_id,
                                   generate_forecast(sales, "ok", periods, method, 0)))
    /\ engine' = EngineAfter(engine, "generate_forecast")
    /\ UNCHANGED <<sales, call, ret, dicts, saved, resp, store, first, inventoryVars>>

\* one iteration of the loop of app.py lines 338-339 in request i
SaveForecast(i) ==
    /\ reqs[i].status = 0
    /\ reqs[i].done < Len(reqs[i].records)
    /\ store' = Insert(store, reqs[i].records[reqs[i].done + 1])
    /\ reqs' = [reqs EXCEPT ![i].done = @ + 1]
    /\ UNCHANGED <<engine, sales, call, ret, dicts, saved, resp, first, inventoryVars>>

\* the INSERT of request i raises: app.py lines 344-346
SaveForecastRaises(i) ==
    /\ reqs[i].status = 0
    /\ reqs[i].done < Len(reqs[i].records)
    /\ reqs' = [reqs EXCEPT ![i].status = 500]
    /\ UNCHANGED <<engine, sales, call, ret, dicts, saved, resp, store, first, inventoryVars>>

\* request i has saved all its records and answers: app.py line 341
Respond(i) ==
    /\ reqs[i].status = 0
    /\ reqs[i].done = Len(reqs[i].records)
    /\ reqs' = [reqs EXCEPT ![i].status = 200]
    /\ UNCHANGED <<engine, sales, call, ret, dicts, saved, resp, store, first, inventoryVars>>

ConcurrentNext ==
    \/ StartRequest
    \/ \E i \in 1..Len(reqs) : SaveForecast(i)
    \/ \E i \in 1..Len(reqs) : SaveForecastRaises(i)
    \/ \E i \in 1..Len(reqs) : Respond(i)

ConcurrentSpec == ConcurrentInit /\ [][ConcurrentNext]_vars

(***************************************************************************)
(* Repeated calls: a caller calls forecast methods on the stored history   *)
(* again and again, with other operations of the engine in between; the    *)
(* first call of a method is remembered with its result                    *)
(***************************************************************************)
\* the memory of the first call after the call c has returned r
Recorded(f, c, r) ==
    IF f = NoCall
    THEN [op |-> c.op, periods |-> c.periods, data |-> c.data, result |-> r,
          between |-> FALSE, again |-> FALSE]
    ELSE IF f.op = c.op /\ f.periods = c.periods /\ f.data = c.data
    THEN [f EXCEPT !.again = TRUE]
    ELSE f
\* the memory after another operation of the engine has run
Between(f) == IF f = NoCall \/ f.again THEN f ELSE [f EXCEPT !.between = TRUE]

\* a direct call of one of the four methods or of the ensemble
ReplayCall(m) ==
    /\ call.op = "idle"
    /\ \E periods \in 1..MaxPeriods :
         LET data == get_sales_history(sales, 36)
         IN /\ call' = [op |-> m, periods |-> periods, data |-> data]
            /\ ret' = Dispatch(m, data, periods)
    /\ first' = Recorded(first, call', ret')
    /\ engine' = EngineAfter(engine, m)
    /\ UNCHANGED <<sales, dicts, saved, resp, concurrentVars, inventoryVars>>

ReplayMethod == \E m \in MethodNames : ReplayCall(m)

\* a call of generate_forecast or of evaluate_forecast_accuracy
ReplayOther ==
    /\ call.op = "idle"
    /\ \E op \in {"generate_forecast", "evaluate_forecast_accuracy"} :
         /\ call' = [op |-> op, method |-> "ensemble", periods |-> 1,
                     fetch |-> "ok", fetch24 |-> "ok", now |-> 0]
         /\ ret' = IF op = "generate_forecast"
                   THEN generate_forecast(sales, "ok", 1, "ensemble", 0)
                   ELSE evaluate_forecast_accuracy(sales, "ok", "ok", "ensemble", 0)
         /\ engine' = EngineAfter(engine, op)
    /\ first' = Between(first)
    /\ UNCHANGED <<sales, dicts, saved, resp, concurrentVars, inventoryVars>>

\* the caller takes the result
ReplayReturn ==
    /\ call.op # "idle"
    /\ call' = Idle
    /\ ret' = NoResult
    /\ UNCHANGED <<engine, sales, dicts, saved, resp, concurrentVars, first, inventoryVars>>

ReplayNext ==
    \/ ReplayMethod
    \/ ReplayOther
    \/ ReplayReturn

ReplaySpec == Init /\ [][ReplayNext]_vars

(***************************************************************************)
(* Stock updates (src/models.py): Product.update_stock runs two statements *)
(* on the shared connection, each committed when it returns; calls of      *)
(* several requests interleave statement by statement                      *)
(***************************************************************************)
Operations == {"add", "subtract"}
\* the engine and the forecast store at rest
ForecastIdle ==
    /\ sales = <<>>
    /\ call = Idle
    /\ ret = NoResult
    /\ dicts = NoDicts
    /\ saved = <<>>
    /\ resp = NoResponse
    /\ engine = NewEngine
    /\ store = <<>>
    /\ reqs = <<>>
    /\ first = NoCall

\* the stock_levels rows of a (product, warehouse) pair: at most one, the
\* pair being the conflict target of the upsert
RowsOf(table, product_id, warehouse_id) ==
    {r \in table : r.product_id = product_id /\ r.warehouse_id = warehouse_id}

\* GREATEST(a, b)
Greatest(a, b) == IF a >= b THEN a ELSE b

\* INSERT ... ON CONFLICT (product_id, warehouse_id) DO UPDATE SET
\* current_stock = stock_levels.current_stock + EXCLUDED.current_stock
Upsert(table, product_id, warehouse_id, quantity) ==
    IF RowsOf(table, product_id, warehouse_id) = {}
    THEN table \cup {[product_id |-> product_id, warehouse_id |-> warehouse_id,
                      current_stock |-> quantity]}
    ELSE {IF r \in RowsOf(table, product_id, warehouse_id)
          THEN [r EXCEPT !.current_stock = @ + quantity] ELSE r : r \in table}

\* faulty variant of Subtract: SET current_stock = current_stock - %s
SubtractUnclamped(table, product_id, warehouse_id, quantity) ==
    {IF r \in RowsOf(table, product_id, warehouse_id)
     THEN [r EXCEPT !.current_stock = @ - quantity] ELSE r : r \in table}

\* UPDATE stock_levels SET current_stock = GREATEST(0, current_stock - %s)
\* WHERE product_id = %s AND warehouse_id = %s
Subtract(table, product_id, warehouse_id, quantity) ==
    {IF r \in RowsOf(table, product_id, warehouse_id)
     THEN [r EXCEPT !.current_stock = Greatest(0, @ - quantity)] ELSE r : r \in table}

\* the first statement of update_stock
StockStatement(table, product_id, warehouse_id, quantity_change, operation) ==
    IF operation = "add"
    THEN Upsert(table, product_id, warehouse_id, quantity_change)
    ELSE Subtract(table, product_id, warehouse_id, quantity_change)

\* SUM(current_stock) over a set of rows
RECURSIVE SumStock(_)
SumStock(rows) ==
    IF rows = {} THEN 0
    ELSE LET r == CHOOSE x \in rows : TRUE
         IN r.current_stock + SumStock(rows \ {r})

\* faulty variant of Utilization: the subquery is not correlated with the
\* warehouse
UtilizationAllWarehouses(table, warehouse_id) == SumStock(table)

\* SELECT COALESCE(SUM(sl.current_stock), 0) FROM stock_levels sl
\* WHERE sl.warehouse_id = w.warehouse_id
Utilization(table, warehouse_id) ==
    SumStock({r \in table : r.warehouse_id = warehouse_id})

\* the largest stock a row has after the statement
StockAfter(table, product_id, warehouse_id, quantity_change) ==
    IF RowsOf(table, product_id, warehouse_id) = {} THEN quantity_change
    ELSE (CHOOSE r \in RowsOf(table, product_id, warehouse_id) : TRUE).current_stock
         + quantity_change

\* a call of update_stock: pc is the statement it runs next, overlapped
\* tells that another call on the warehouse was between its two statements
\* when this one recomputed the utilization
StockCall(product_id, warehouse_id, quantity_change, operation, pc) ==
    [product_id |-> product_id, warehouse_id |-> warehouse_id,
     quantity_change |-> quantity_change, operation |-> operation,
     pc |-> pc, overlapped |-> FALSE]

StockInit ==
    /\ ForecastIdle
    /\ OrdersIdle
    /\ SchemaIdle
    /\ stock_levels = {}
    /\ warehouses \in [WarehouseIds -> {0, 1}]
    /\ calls = <<>>

\* Product.update_stock up to the return of its first execute_query
UpdateStock ==
    /\ Len(calls) < MaxCalls
    /\ \E product_id \in ProductIds, warehouse_id \in WarehouseIds,
          quantity_change \in 0..MaxChange, operation \in Operations :
         /\ operation = "add" =>
                StockAfter(stock_levels, product_id, warehouse_id, quantity_change)
                    <= MaxStock
         /\ stock_levels' = StockStatement(stock_levels, product_id, warehouse_id,
                                           quantity_change, operation)
         /\ calls' = Append(calls, StockCall(product_id, warehouse_id,
                                             quantity_change, operation,
                                             "update_utilization"))
    /\ UNCHANGED <<forecastVars, orderVars, schemaVars, warehouses>>

\* the first execute_query raises: update_stock raises
UpdateStockRaises ==
    /\ Len(calls) < MaxCalls
    /\ \E product_id \in ProductIds, warehouse_id \in WarehouseIds,
          quantity_change \in 0..MaxChange, operation \in Operations :
         calls' = Append(calls, StockCall(product_id, warehouse_id,
                                          quantity_change, operation,
                                          "stock_raised"))
    /\ UNCHANGED <<forecastVars, orderVars, schemaVars, stock_levels, warehouses>>

\* Warehouse.update_utilization of call i, and the return of update_stock
UpdateUtilization(i) ==
    /\ calls[i].pc = "update_utilization"
    /\ warehouses' = [warehouses EXCEPT ![calls[i].warehouse_id] =
                         Utilization(stock_levels, calls[i].warehouse_id)]
    /\ calls' = [calls EXCEPT ![i].pc = "done",
                              ![i].overlapped =
                                  \E j \in 1..Len(calls) :
                                     /\ j # i
                                     /\ calls[j].warehouse_id = calls[i].warehouse_id
                                     /\ calls[j].pc = "update_utilization"]
    /\ UNCHANGED <<forecastVars, orderVars, schemaVars, stock_levels>>

\* the execute_query of update_utilization raises: update_stock raises
UpdateUtilizationRaises(i) ==
    /\ calls[i].pc = "update_utilization"
    /\ calls' = [calls EXCEPT ![i].pc = "utilization_raised"]
    /\ UNCHANGED <<forecastVars, orderVars, schemaVars, stock_levels, warehouses>>

StockNext ==
    \/ UpdateStock
    \/ UpdateStockRaises
    \/ \E i \in 1..Len(calls) : UpdateUtilization(i)
    \/ \E i \in 1..Len(calls) : UpdateUtilizationRaises(i)

StockSpec == StockInit /\ [][StockNext]_vars

(***************************************************************************)
(* Orders (src/models.py): Order.create_order_with_items inserts the order,*)
(* inserts its items one by one and then updates the order's total; each   *)
(* statement is committed when it returns (autocommit, database.py line    *)
(* 24) and any of them may raise                                           *)
(***************************************************************************)
\* the order dicts of a request: total_amount is the value the orders row
\* gets from the INSERT, 0 when the dict leaves it to the column
OrderData == [total_amount : {0, 1}]
Items == [quantity : 1..MaxQuantity, unit_price : 0..MaxPrice]
ItemsData == UNION {[1..n -> Items] : n \in 0..MaxItems}

\* item_total = item['quantity'] * item['unit_price']
ItemTotal(item) == item.quantity * item.unit_price

\* the order_items row of an item
ItemRow(order_id, item) ==
    [order_id |-> order_id, quantity |-> item.quantity,
     unit_price |-> item.unit_price, total_price |-> ItemTotal(item)]

\* total_amount after the first k items of the loop
RECURSIVE TotalAmount(_, _)
TotalAmount(items_data, k) ==
    IF k = 0 THEN 0
    ELSE TotalAmount(items_data, k - 1) + ItemTotal(items_data[k])

\* the rows the first k passes of the loop insert
ItemsCreated(order_id, items_data, k) ==
    [i \in 1..k |-> ItemRow(order_id, items_data[i])]

\* the order_id the INSERT into orders returns
NextOrderId == Len(orders) + 1

OrderInit ==
    /\ ForecastIdle
    /\ InventoryIdle

\* Order.create_order_with_items when no statement raises
CreateOrderWithItems ==
    /\ Len(orders) < MaxOrders
    /\ \E order_data \in OrderData, items_data \in ItemsData :
         /\ orders' = Append(orders,
                [order_id |-> NextOrderId,
                 total_amount |-> TotalAmount(items_data, Len(items_data))])
         /\ order_items' = order_items \o
                ItemsCreated(NextOrderId, items_data, Len(items_data))
         /\ order_call' = [pc |-> "returned", order_id |-> NextOrderId,
                           items_data |-> items_data,
                           created |-> Len(items_data)]
    /\ UNCHANGED <<forecastVars, stockVars, schemaVars>>

\* Order.create_order_with_items when statement number k raises: 0 is the
\* INSERT of the order, 1..n the INSERT of item k, n + 1 the UPDATE of the
\* total; the statements before it stay committed
CreateOrderWithItemsRaises ==
    /\ Len(orders) < MaxOrders
    /\ \E order_data \in OrderData, items_data \in ItemsData,
          k \in 0..(MaxItems + 1) :
         /\ k <= Len(items_data) + 1
         /\ orders' = IF k = 0 THEN orders
                      ELSE Append(orders,
                               [order_id |-> NextOrderId,
                                total_amount |-> order_data.total_amount])
         /\ order_items' = IF k = 0 THEN order_items
                           ELSE order_items \o
                                ItemsCreated(NextOrderId, items_data, k - 1)
         /\ order_call' = [pc |-> "raised",
                           order_id |-> IF k = 0 THEN 0 ELSE NextOrderId,
                           items_data |-> items_data,
                           created |-> IF k = 0 THEN 0 ELSE k - 1]
    /\ UNCHANGED <<forecastVars, stockVars, schemaVars>>

OrderNext ==
    \/ CreateOrderWithItems
    \/ CreateOrderWithItemsRaises

OrderSpec == OrderInit /\ [][OrderNext]_vars

(***************************************************************************)
(* Schema initialisation (src/database.py): initialize_schema applies the  *)
(* DDL of the schema file, counts the rows of every table the file has an  *)
(* INSERT for, and runs the INSERTs of the tables it found empty; between  *)
(* runs the application inserts rows                                       *)
(***************************************************************************)
\* the table of an INSERT statement for which the regular expression finds
\* no table name
NoTable == "None"
\* the (table, stmt) pairs of a schema file; every statement inserts one row
SeedPairs == UNION {[1..n -> SeedTables \cup {NoTable}] : n \in 0..MaxSeeds}

\* cursor.fetchone() of SELECT COUNT(*): the cursors of the connection are
\* RealDictCursors, the row maps the column name to the count
FetchOne(n) == [is_dict |-> TRUE, columns |-> <<"count">>, values |-> <<n>>]

\* _normalize_row: a dict row becomes a plain dict with the same keys
NormalizeRow(row) ==
    IF row.is_dict
    THEN [is_dict |-> TRUE, columns |-> row.columns, values |-> row.values]
    ELSE row

\* count_row[i]: the keys of a dict are its column names, an integer
\* subscript raises KeyError; a sequence row gives its value number i
Subscript(row, i) ==
    IF row.is_dict THEN [raised |-> TRUE, value |-> 0]
    ELSE [raised |-> FALSE, value |-> row.values[i + 1]]

\* bool(count_row): a row with no column is false
RowTruthy(row) == row.columns # <<>>

\* empties[table] for a table with n rows
Empty(n, query_raises) ==
    IF query_raises THEN FALSE
    ELSE LET count_row == NormalizeRow(FetchOne(n))
         IN IF RowTruthy(count_row)
            THEN IF Subscript(count_row, 0).raised THEN FALSE
                 ELSE Subscript(count_row, 0).value = 0
            ELSE TRUE

\* the tables the counting loop counts
Counted(seed_pairs) ==
    {seed_pairs[i] : i \in 1..Len(seed_pairs)} \ {NoTable}

\* the statements the seeding loop executes
Executed(seed_pairs, empties) ==
    {i \in 1..Len(seed_pairs) :
        seed_pairs[i] # NoTable /\ empties[seed_pairs[i]]}

\* the rows of the tables after the statements that did not raise
Seeded(rows, seed_pairs, inserted) ==
    [t \in SeedTables |->
        rows[t] + Cardinality({i \in inserted : seed_pairs[i] = t})]

SchemaInit ==
    /\ ForecastIdle
    /\ InventoryIdle

\* Database.initialize_schema with a schema file: count_raises are the
\* tables whose SELECT COUNT(*) raises, insert_raises the INSERT statements
\* that raise
InitializeSchema ==
    /\ schema_call.runs < MaxRuns
    /\ \E seed_pairs \in SeedPairs, count_raises \in SUBSET SeedTables,
          insert_raises \in SUBSET (1..MaxSeeds) :
         LET empties == [t \in SeedTables |->
                            /\ t \in Counted(seed_pairs)
                            /\ Empty(tables[t], t \in count_raises)]
             executed == Executed(seed_pairs, empties)
         IN /\ count_raises \subseteq Counted(seed_pairs)
            /\ insert_raises \subseteq executed
            /\ tables' = Seeded(tables, seed_pairs, executed \ insert_raises)
            /\ schema_call' =
                  [runs |-> schema_call.runs + 1, raised |-> FALSE,
                   file |-> TRUE,
                   seed_pairs |-> seed_pairs,
                   counts |-> [t \in SeedTables |->
                                  IF t \in Counted(seed_pairs) \ count_raises
                                  THEN [counted |-> TRUE, rows |-> tables[t]]
                                  ELSE NotCounted],
                   executed |-> executed]
    /\ UNCHANGED <<forecastVars, stockVars, orderVars>>

\* Database.initialize_schema when the schema file does not exist
InitializeSchemaNoFile ==
    /\ schema_call.runs < MaxRuns
    /\ schema_call' = [NoSchemaCall EXCEPT !.runs = schema_call.runs + 1]
    /\ UNCHANGED <<forecastVars, stockVars, orderVars, tables>>

\* the application inserts a row into a table (BaseModel.create)
CreateRow ==
    /\ \E t \in SeedTables :
         /\ tables[t] < MaxRows
         /\ tables' = [tables EXCEPT ![t] = @ + 1]
    /\ UNCHANGED <<forecastVars, stockVars, orderVars, schema_call>>

SchemaNext ==
    \/ InitializeSchema
    \/ InitializeSchemaNoFile
    \/ CreateRow

SchemaSpec == SchemaInit /\ [][SchemaNext]_vars

(***************************************************************************)
(* Properties of generate_forecast                                         *)
(***************************************************************************)
SuccessMessage == "Forecast generated successfully"
InGenerate == call.op = "generate_forecast"
InEvaluate == call.op = "evaluate_forecast_accuracy"
\* s is the first day of the month that day d lies in
IsMonthStartOf(s, d) ==
    /\ s <= d
    /\ DayOfMonth(s) = 1
    /\ \A x \in (s + 1)..d : DayOfMonth(x) # 1

\* C1: a non-null record list of generate_forecast(periods = N) has exactly
\* N records; in every record period_end is period_start + 29 days; the
\* period_start of consecutive records are 30 days apart and the first one
\* is day 1 of the current month.
C1_RecordPeriods ==
    (InGenerate /\ ~ret.isNone) =>
        /\ Len(ret.value) = call.periods
        /\ \A i \in 1..Len(ret.value) :
              ret.value[i].period_end = ret.value[i].period_start + 29
        /\ \A i \in 1..(Len(ret.value) - 1) :
              ret.value[i + 1].period_start = ret.value[i].period_start + 30
        /\ IsMonthStartOf(ret.value[1].period_start, call.now)

C1_Witness ==
    /\ InGenerate
    /\ ~ret.isNone
    /\ Len(ret.value) = 2
    /\ ret.value[1].period_start < call.now

\* the outcome the four tests of generate_forecast select for the history
\* of the last 24 months, in their order
ExpectedMessage ==
    IF get_sales_history(sales, 24) = <<>> THEN "No sales history available"
    ELSE IF Len(get_sales_history(sales, 24)) < 3
    THEN "Insufficient data for forecasting"
    ELSE IF Dispatch(call.method, get_sales_history(sales, 24), call.periods).isNone
    THEN "Forecasting failed"
    ELSE SuccessMessage

\* C2: when the history fetch does not raise, generate_forecast ends in
\* exactly one of four outcomes, tested in this order: empty history, 1 or 2
\* observations (for every method, exponential smoothing included), the
\* selected method not applicable, success; and the result is null exactly
\* when the message is not the success message.
C2_FourOutcomes ==
    (InGenerate /\ call.fetch = "ok") =>
        /\ ret.message = ExpectedMessage
        /\ ret.isNone <=> (ret.message # SuccessMessage)
        /\ ret.isNone => ret.value = <<>>

C2_Witness ==
    /\ InGenerate
    /\ call.fetch = "ok"
    /\ call.method = "exponential_smoothing"
    /\ Len(sales) = 2
    /\ ret.isNone
    /\ ret.message = "Insufficient data for forecasting"

\* the history collaborator raised during the call
CollaboratorRaised ==
    \/ InGenerate /\ call.fetch = "raise"
    \/ InEvaluate /\ call.fetch = "raise"
    \/ InEvaluate /\ Len(ret.fetched) = 2 /\ call.fetch24 = "raise"

\* C3: generate_forecast and evaluate_forecast_accuracy never raise to
\* their caller, whatever the history collaborator does; when the
\* collaborator raises, the result is null and the message is not empty.
C3_NeverRaises ==
    (InGenerate \/ InEvaluate) =>
        /\ ~ret.raised
        /\ ret.message # ""
        /\ CollaboratorRaised => (ret.isNone /\ ret.value = <<>>)

C3_Witness ==
    /\ InEvaluate
    /\ call.fetch = "ok"
    /\ call.fetch24 = "raise"
    /\ Len(ret.fetched) = 2
    /\ ret.isNone
    /\ ~ret.raised

\* the method selected by the request is not applicable to the fetched
\* history
SelectedNotApplicable ==
    Dispatch(call.method, get_sales_history(sales, 24), call.periods).isNone

\* C4: whenever the method selected in generate_forecast is not applicable
\* to the fetched history, generate_forecast returns a null result, no
\* forecast record is produced and none is persisted.
C4_NoForecastFromFailure ==
    (InGenerate /\ call.fetch = "ok" /\ SelectedNotApplicable) =>
        /\ ret.isNone
        /\ ret.value = <<>>
        /\ saved = <<>>
        /\ resp.status = 400

\* the ensemble with contributing methods whose confidences are all zero
C4_Witness ==
    /\ InGenerate
    /\ call.fetch = "ok"
    /\ call.method = "ensemble"
    /\ EnsembleDicts(get_sales_history(sales, 24), call.periods) # <<>>
    /\ ret.message = "Forecasting failed"
    /\ saved = <<>>

(***************************************************************************)
(* Properties of the four methods and of the ensemble                      *)
(***************************************************************************)
InMethod == call.op \in {"moving_average", "exponential_smoothing",
                         "trend_analysis", "seasonal", "ensemble"}
SumConfidence(d) == Sum([k \in 1..Len(d) |-> d[k].confidence])

\* C5 as stated: for data of length 0, 1 or 2 each of the four methods and
\* the ensemble returns the not-applicable result.
C5_AllNotApplicableBelowThree ==
    (InMethod /\ Len(call.data) < 3) => ret = NotApplicable

\* C5: for data of length 0 or 1 each of the four methods and the ensemble
\* returns the not-applicable result; for data of length 2 the moving
\* average, the trend analysis and the seasonal method do, exponential
\* smoothing returns a forecast of length periods, and the ensemble, whose
\* only contributor it is, is not applicable exactly when the confidence of
\* exponential smoothing is 0.
C5_ShortData ==
    /\ (InMethod /\ Len(call.data) < 2) => ret = NotApplicable
    /\ (InMethod /\ Len(call.data) = 2) =>
          CASE call.op = "exponential_smoothing" ->
                  ~ret.isNone /\ Len(ret.forecast) = call.periods
            [] call.op = "ensemble" ->
                  /\ Len(dicts) = 1
                  /\ dicts[1].method = "exponential_smoothing"
                  /\ ret.isNone <=> (dicts[1].confidence = 0)
            [] OTHER -> ret = NotApplicable

C5_Witness ==
    /\ call.op = "exponential_smoothing"
    /\ Len(call.data) = 2
    /\ ~ret.isNone

InEnsemble == call.op = "ensemble"
\* dict entry e holds the forecast and the confidence of result r
HoldsResult(e, r) ==
    /\ ~r.isNone
    /\ e.forecast = r.forecast
    /\ e.confidence = r.confidence
\* the entries of the dicts are the results of exactly the methods that
\* produced a forecast for the data of the call, each entered once
DictsAreContributors ==
    /\ \A k \in 1..Len(dicts) :
          HoldsResult(dicts[k], RunMethod(dicts[k].method, call.data, call.periods))
    /\ \A j, k \in 1..Len(dicts) : dicts[j].method = dicts[k].method => j = k
    /\ \A j \in 1..Len(EnsembleMembers) :
          \/ RunMethod(EnsembleMembers[j], call.data, call.periods).isNone
          \/ \E k \in 1..Len(dicts) : dicts[k].method = EnsembleMembers[j]
\* the weight of entry k
WeightOf(d, k) == FDiv(d[k].confidence, SumConfidence(d))
\* the sum over the entries of weight * forecast at step i
WeightedStep(d, i) ==
    Sum([k \in 1..Len(d) |-> FMul(d[k].forecast[i], WeightOf(d, k))])
StepValues(d, i) == {d[k].forecast[i] : k \in 1..Len(d)}
MinStep(d, i) == CHOOSE v \in StepValues(d, i) : \A u \in StepValues(d, i) : v <= u
MaxStep(d, i) == CHOOSE v \in StepValues(d, i) : \A u \in StepValues(d, i) : v >= u
\* what the truncation of every weight and of every product to a millionth
\* can take from a weighted sum of values not below lo
Truncation(d, lo) == Len(d) * ((lo \div ONE) + 2)

\* C7: the ensemble combines only the methods that produced a forecast: at
\* every step its value is the sum over them of confidence / (sum of their
\* confidences) * forecast; the weights sum to 1, so the value lies between
\* the smallest and the largest of their forecasts at that step.
C7_WeightedCombination ==
    (InEnsemble /\ ~ret.isNone) =>
        /\ DictsAreContributors
        /\ Sum([k \in 1..Len(dicts) |-> WeightOf(dicts, k)]) \in (ONE - Len(dicts))..ONE
        /\ \A i \in 1..call.periods :
              /\ ret.forecast[i] = WeightedStep(dicts, i)
              /\ ret.forecast[i] <= MaxStep(dicts, i)
              /\ ret.forecast[i] >= MinStep(dicts, i)
                                      - Truncation(dicts, MinStep(dicts, i))

\* contributors with different confidences and different forecasts
C7_Witness ==
    /\ InEnsemble
    /\ ~ret.isNone
    /\ Len(dicts) >= 3
    /\ \E j, k \in 1..Len(dicts) :
          /\ dicts[j].confidence # dicts[k].confidence
          /\ dicts[j].forecast[1] # dicts[k].forecast[1]
    /\ ret.forecast[1] < MaxStep(dicts, 1)
    /\ ret.forecast[1] > MinStep(dicts, 1)

\* C8: the ensemble is not applicable whenever the confidences of the
\* contributing methods sum to 0, though forecasts exist, and whenever no
\* method produced a forecast; in every other case it returns a forecast.
C8_NotApplicableIffNoWeight ==
    InEnsemble =>
        /\ DictsAreContributors
        /\ ret.isNone <=> (dicts = <<>> \/ SumConfidence(dicts) = 0)
        /\ ret.isNone => ret = NotApplicable
        /\ ~ret.isNone => Len(ret.forecast) = call.periods

C8_Witness ==
    /\ InEnsemble
    /\ dicts # <<>>
    /\ SumConfidence(dicts) = 0
    /\ ret = NotApplicable

\* C9: the confidence of an ensemble forecast is the unweighted arithmetic
\* mean of the confidences of exactly the contributing methods, and it is
\* within [0, 100].
C9_MeanConfidence ==
    (InEnsemble /\ ~ret.isNone) =>
        /\ DictsAreContributors
        /\ Len(dicts) * ret.confidence <= SumConfidence(dicts)
        /\ SumConfidence(dicts) < Len(dicts) * (ret.confidence + 1)
        /\ ret.confidence >= 0
        /\ ret.confidence <= Num(100)

\* fewer contributors than methods, with different confidences
C9_Witness ==
    /\ InEnsemble
    /\ ~ret.isNone
    /\ Len(dicts) \in 2..3
    /\ \E j, k \in 1..Len(dicts) : dicts[j].confidence # dicts[k].confidence
    /\ ret.confidence > 0

InRange(c) == ~IsNaN(c) /\ c >= 0 /\ c <= Num(100)

\* C10: the confidence returned by each of the four methods and by the
\* ensemble is within [0, 100], and so is confidence_level in every record
\* returned by generate_forecast.
C10_ConfidenceClamped ==
    /\ InMethod => InRange(ret.confidence)
    /\ InEnsemble => \A k \in 1..Len(dicts) : InRange(dicts[k].confidence)
    /\ (InGenerate /\ ~ret.isNone) =>
          \A i \in 1..Len(ret.value) : InRange(ret.value[i].confidence_level)

\* exponential smoothing of <<0, q>>: the stability 1 - q / (q/2) is
\* negative and the confidence is 0
C10_Witness ==
    /\ call.op = "exponential_smoothing"
    /\ Len(call.data) = 2
    /\ call.data[1] = 0
    /\ call.data[2] > 0
    /\ ~ret.isNone
    /\ ret.confidence = 0

(***************************************************************************)
(* Properties of the records and of the method argument                    *)
(***************************************************************************)
\* C11: in every forecast record returned by generate_forecast, for every
\* method and every history of non-negative monthly quantities,
\* predicted_demand is an integer >= 0.
C11_DemandNonNegative ==
    (InGenerate /\ ~ret.isNone) =>
        \A i \in 1..Len(ret.value) : ret.value[i].predicted_demand \in Nat

\* the trend of a falling history is below 0 at the first step and is
\* floored
C11_Witness ==
    /\ InGenerate
    /\ ~ret.isNone
    /\ call.method = "trend_analysis"
    /\ Len(sales) = 3
    /\ sales[1] > 2 * sales[2]
    /\ sales[3] = 0
    /\ ret.value[1].predicted_demand = 0

\* C12: for every value of the method argument, every returned record has
\* forecast_method among the five method names, and a method name outside
\* them is rejected: the result is null, nothing is saved and the response
\* is not a success.
C12_ClosedMethodSet ==
    InGenerate =>
        /\ \A i \in 1..Len(ret.value) : ret.value[i].forecast_method \in MethodNames
        /\ call.method \notin MethodNames =>
              (ret.isNone /\ saved = <<>> /\ resp.status # 200)

(***************************************************************************)
(* Properties of evaluate_forecast_accuracy                                *)
(***************************************************************************)
\* the observations of the last 36 months
History36 == get_sales_history(sales, 36)
\* the 36-month fetch returned the history
Evaluating == InEvaluate /\ call.fetch = "ok"

\* C13: evaluate_forecast_accuracy returns (null, 'Insufficient data for
\* evaluation') whenever the 36-month history has fewer than 12
\* observations, for every method, and it returns before calling
\* generate_forecast: the 36-month fetch is the only one.
C13_InsufficientForEvaluation ==
    (Evaluating /\ Len(History36) < 12) =>
        /\ ret.isNone
        /\ ret.value = <<>>
        /\ ret.message = "Insufficient data for evaluation"
        /\ ret.fetched = <<36>>

\* 7 observations; a second fetch would have raised
C13_Witness ==
    /\ Evaluating
    /\ Len(History36) = 7
    /\ call.method = "exponential_smoothing"
    /\ call.fetch24 = "raise"
    /\ ret.message = "Insufficient data for evaluation"
    /\ ret.fetched = <<36>>

\* the generate_forecast call nested in the evaluation returns null
NestedIsNull(now) == generate_forecast(sales, call.fetch24, 12, call.method, now).isNone

\* C14: when the 36-month history has at least 12 observations and the
\* nested generate_forecast call returns a null result, for whatever
\* reason, evaluate_forecast_accuracy returns (null, 'Could not generate
\* forecast for evaluation') and computes no metrics.
C14_NoForecastNoMetrics ==
    (Evaluating /\ Len(History36) >= 12 /\ NestedIsNull(0)) =>
        /\ ret.isNone
        /\ ret.value = <<>>
        /\ ret.message = "Could not generate forecast for evaluation"
        /\ ret.fetched = <<36, 24>>

\* twelve observations older than 24 months and two recent ones: enough to
\* evaluate, too few to forecast
C14_Witness ==
    /\ Evaluating
    /\ call.fetch24 = "ok"
    /\ Len(History36) >= 12
    /\ Len(get_sales_history(sales, 24)) = 2
    /\ ret.isNone
    /\ ret.message = "Could not generate forecast for evaluation"

\* the actual values of the evaluation
TestData == LastN(History36, 12)
\* predicted_demand of the records r as numbers
PredictedOf(r) == [i \in 1..Len(r) |-> Num(r[i].predicted_demand)]
\* the predicted values of the evaluation
Predicted == PredictedOf(generate_forecast(sales, "ok", 12, call.method, 0).value)
\* mean of |actual - predicted| / actual over the pairs, in percent
MapeOf(actual, predicted) ==
    FMul(Mean([i \in 1..Len(actual) |->
                  FAbs(FDiv(actual[i] - predicted[i], actual[i]))]),
         Num(100))
\* max(0, 100 - mape) within [0, 100]
IsScoreOf(score, mape) ==
    /\ score = PyMax(0, FSub(Num(100), mape))
    /\ ~IsNaN(score)
    /\ score >= 0
    /\ score <= Num(100)

\* C15: whenever evaluate_forecast_accuracy returns metrics, they are
\* computed over exactly 12 (actual, predicted) pairs, the last 12
\* observations against the 12 predicted_demand values, accuracy_score is
\* max(0, 100 - MAPE) and 0 <= accuracy_score <= 100.
C15_MetricsOverTwelvePairs ==
    (InEvaluate /\ ~ret.isNone) =>
        /\ Len(TestData) = 12
        /\ Len(Predicted) = 12
        /\ ret.value = AccuracyMetrics(TestData, Predicted)
        /\ IsScoreOf(ret.value.accuracy_score, MapeOf(TestData, Predicted))

\* more than 12 observations, none of them 0, and a score inside (0, 100)
C15_Witness ==
    /\ InEvaluate
    /\ ~ret.isNone
    /\ Len(History36) > 12
    /\ ret.value.accuracy_score > 0
    /\ ret.value.accuracy_score < Num(100)

(***************************************************************************)
(* Properties of the route layer                                           *)
(***************************************************************************)
InRoute == InGenerate \/ InEvaluate
\* a save_forecast call of the request raised: the records saved are not
\* all the records returned
PersistRaised == InGenerate /\ ~ret.isNone /\ saved # ret.value
ClientError == resp.status \in 400..499
ServerError == resp.status \in 500..599

\* C16: for POST /forecast/generate and POST /forecast/evaluate, a history
\* fetch or a persist call that raises leads to a 5xx response, and a null
\* result of the engine without a raising collaborator leads to a 4xx
\* response.
C16_RaisingFetchIsServerError ==
    InRoute =>
        /\ (CollaboratorRaised \/ PersistRaised) => ServerError
        /\ (ret.isNone /\ ~CollaboratorRaised) => ClientError

\* what the two routes do answer: every null result of the engine gets
\* status 400, the null result the engine makes of a raising history fetch
\* included; a persist call that raises gets status 500; every other
\* request with both ids gets status 200
RouteStatus ==
    InRoute =>
        /\ ret.isNone => (resp.status = 400 /\ ~resp.success /\ resp.body = ret.message)
        /\ CollaboratorRaised => ClientError
        /\ PersistRaised => (resp.status = 500 /\ ~resp.success)
        /\ (~ret.isNone /\ ~PersistRaised) => (resp.status = 200 /\ resp.success)

\* a raising history fetch answered with a client error
C16_FetchRaisedClientError ==
    /\ InGenerate
    /\ call.fetch = "raise"
    /\ ret.message = "Error generating forecast: <exception>"
    /\ resp.status = 400

\* s is the sequence of the first Len(s) elements of t
IsPrefix(s, t) ==
    /\ Len(s) <= Len(t)
    /\ \A i \in 1..Len(s) : s[i] = t[i]

\* C17: a forecast-generation request saves each returned record once, in
\* horizon order, step 0 first, and saves nothing when generate_forecast
\* returned a null result; the success response is sent only after all
\* records were saved.
C17_SavedInHorizonOrder ==
    InGenerate =>
        /\ IsPrefix(saved, ret.value)
        /\ \A i \in 1..(Len(saved) - 1) :
              saved[i].period_start < saved[i + 1].period_start
        /\ ret.isNone => saved = <<>>
        /\ (~ret.isNone /\ resp.status # 500) => saved = ret.value
        /\ resp.status = 200 => (~ret.isNone /\ saved = ret.value)

C17_Witness ==
    /\ InGenerate
    /\ resp.status = 200
    /\ Len(ret.value) = 2
    /\ saved = ret.value
    /\ saved[1].period_start < saved[2].period_start

(***************************************************************************)
(* Properties of concurrent requests                                       *)
(***************************************************************************)
\* every step leaves the rows of the table as they are and in place
AppendOnly == IsPrefix(store, store')
AllSucceeded ==
    /\ Len(reqs) = MaxRequests
    /\ \A i \in 1..Len(reqs) : reqs[i].status = 200
\* the table holds every record of every request, under ids of their own
StoreHoldsAll ==
    /\ Len(store) = Sum([i \in 1..Len(reqs) |-> Len(reqs[i].records)])
    /\ \A i \in 1..Len(reqs) : \A k \in 1..Len(reqs[i].records) :
          \E j \in 1..Len(store) : store[j].data = reqs[i].records[k]
    /\ \A j, k \in 1..Len(store) : store[j].forecast_id = store[k].forecast_id => j = k

\* C18: for any interleaving of two or more forecast-generation requests,
\* for the same or for different product/warehouse pairs, no save
\* overwrites, updates or deletes a previously persisted forecast record,
\* and when all requests complete successfully the store holds every
\* record of every request: the count has grown by the sum of their
\* horizons.
C18_AppendOnlyStore ==
    /\ [][AppendOnly]_vars
    /\ [](AllSucceeded => StoreHoldsAll)

\* two successful requests for the same pair with different methods, whose
\* saves have interleaved
C18_Witness ==
    /\ AllSucceeded
    /\ Len(store) = 4
    /\ reqs[1].records[1].product_id = reqs[2].records[1].product_id
    /\ reqs[1].records[1].forecast_method # reqs[2].records[1].forecast_method
    /\ store[1].data.forecast_method # store[2].data.forecast_method
    /\ store[2].data.forecast_method # store[3].data.forecast_method

(***************************************************************************)
(* Properties of repeated calls                                            *)
(***************************************************************************)
\* the call that has just returned has the inputs of the first call
SameAsFirst ==
    /\ InMethod
    /\ first # NoCall
    /\ first.op = call.op
    /\ first.periods = call.periods
    /\ first.data = call.data

ReachedGenerate == Evaluating /\ Len(History36) >= 12
\* the result is a failure: a null value with a message, not an exception
FailureResult == ret.isNone /\ ~ret.raised /\ ret.message # ""

\* C20: one generate_forecast call invokes get_sales_history exactly once,
\* with a lookback of 24 months, also when that fetch raises or returns too
\* little data; one evaluate_forecast_accuracy call invokes it once with 36
\* months and, when it goes on to generate_forecast, once more with 24
\* months; a raised fetch ends the call with a failure result.
C20_NoRetry ==
    /\ InGenerate => ret.fetched = <<24>>
    /\ InEvaluate =>
         ret.fetched = IF ReachedGenerate THEN <<36, 24>> ELSE <<36>>
    /\ CollaboratorRaised => FailureResult

\* generate_forecast whose single fetch raised
C20_Witness ==
    /\ InGenerate
    /\ call.fetch = "raise"
    /\ ret.fetched = <<24>>
    /\ FailureResult

(***************************************************************************)
(* Properties of the four methods                                          *)
(***************************************************************************)
\* a direct call of method m has returned
Called(m) == call.op = m
\* the observations of the call as floats
ConstantInput == [i \in 1..5 |-> Num(10)]
\* the mean of the last 3 observations
MeanOfLastThree ==
    LET n == Len(call.data)
    IN (call.data[n - 2] + call.data[n - 1] + call.data[n]) \div 3

\* C21: for every data sequence of length >= 3 and every horizon,
\* moving_average_forecast returns a forecast in which every step equals the
\* mean of the last 3 observations, whatever the earlier observations are;
\* for the constant input [10,10,10,10,10] with 3 periods the result is
\* [10,10,10] with confidence 100.
C21_MovingAverage ==
    (Called("moving_average") /\ Len(call.data) >= 3) =>
        /\ ~ret.isNone
        /\ Len(ret.forecast) = call.periods
        /\ \A i \in 1..call.periods : ret.forecast[i] = MeanOfLastThree
        /\ (call.data = ConstantInput /\ call.periods = 3) =>
               /\ ret.forecast = <<Num(10), Num(10), Num(10)>>
               /\ ret.confidence = Num(100)

\* the constant input with 3 periods
C21_Witness ==
    /\ Called("moving_average")
    /\ call.data = ConstantInput
    /\ call.periods = 3
    /\ ret.forecast = <<Num(10), Num(10), Num(10)>>

\* S[k] of S[0] = data[0], S[i] = 0.3*data[i] + 0.7*S[i-1], k counted from 1
RECURSIVE SmoothedValue(_, _)
SmoothedValue(data, k) ==
    IF k = 1 THEN data[1]
    ELSE ((3 * data[k]) \div 10) + ((7 * SmoothedValue(data, k - 1)) \div 10)
MinOf(data) == CHOOSE v \in {data[i] : i \in 1..Len(data)} :
                   \A i \in 1..Len(data) : v <= data[i]
MaxOf(data) == CHOOSE v \in {data[i] : i \in 1..Len(data)} :
                   \A i \in 1..Len(data) : v >= data[i]
OneTwoThree == <<Num(1), Num(2), Num(3)>>
\* 1.3 and 1.81
SmoothedOneTwoThree == <<Num(1), Num(13) \div 10, Num(181) \div 100>>

LineAt(line, x) == line[1] * x + line[2]
\* the residuals y[i] - line(x[i]) for x = 0..n-1
Residuals(line, y) == [i \in 1..Len(y) |-> y[i] - LineAt(line, i - 1)]
\* the normal equations of the least-squares line over x = 0..n-1: the
\* residuals sum to 0, and so do the residuals weighted by x - mean(x), up to
\* the last digit of the coefficients
IsLeastSquaresLine(line, y) ==
    LET n == Len(y)
        r == Residuals(line, y)
    IN /\ Abs(Sum(r)) <= 3 * n
       /\ Abs(Sum([i \in 1..n |-> (2 * (i - 1) - (n - 1)) * r[i]])) <= n * n * n
AllEqual(y) == \A i \in 1..Len(y) : y[i] = y[1]
\* R^2 * 100 of the line
RSquaredPercent(line, y) ==
    LET r == Residuals(line, y)
        ss_res == Sum([i \in 1..Len(y) |-> Sq(r[i])])
        ss_tot == Sum(DevSq(y, Mean(y)))
    IN FMul(ONE - FDiv(ss_res, ss_tot), Num(100))
PerfectLine == <<Num(1), Num(2), Num(3), Num(4)>>

\* C23: for every data sequence of length n >= 3, trend_analysis_forecast
\* returns for step i (1..periods) the value max(0, slope*(n+i-1) +
\* intercept) of the least-squares line over x = 0..n-1, so no forecast
\* value is negative; confidence is R^2*100 clamped to [0,100] and is 0 when
\* all observations are equal; for [1,2,3,4] with 2 periods the result is
\* [5,6] with confidence 100.
C23_TrendAnalysis ==
    (Called("trend_analysis") /\ Len(call.data) >= 3) =>
        LET line == PolyFit1(call.data)
            n == Len(call.data)
        IN /\ ~ret.isNone
           /\ Len(ret.forecast) = call.periods
           /\ IsLeastSquaresLine(line, call.data)
           /\ \A i \in 1..call.periods :
                /\ ret.forecast[i] >= 0
                /\ ret.forecast[i] = IF LineAt(line, n + i - 1) > 0
                                     THEN LineAt(line, n + i - 1) ELSE 0
           /\ ret.confidence \in 0..Num(100)
           /\ AllEqual(call.data) => ret.confidence = 0
           /\ ~AllEqual(call.data) =>
                ret.confidence = Clamp(RSquaredPercent(line, call.data))
           /\ (call.data = PerfectLine /\ call.periods = 2) =>
                /\ ret.forecast = <<Num(5), Num(6)>>
                /\ ret.confidence = Num(100)

\* the input [1,2,3,4] with 2 periods
C23_Witness ==
    /\ Called("trend_analysis")
    /\ call.data = PerfectLine
    /\ call.periods = 2
    /\ ret.forecast = <<Num(5), Num(6)>>
    /\ ret.confidence = Num(100)

\* the observations data[k], data[k+12], ... of slot k, k counted from 0
SlotData(data, k) ==
    [j \in 1..(((Len(data) - k - 1) \div 12) + 1) |-> data[k + 12 * (j - 1) + 1]]
\* the 12 slot averages
SlotAverages(data) == [k \in 1..12 |-> Mean(SlotData(data, k - 1))]
\* mean(last 12 observations) * pattern[slot] / mean(pattern), the factor
\* being 1 when mean(pattern) is 0
SeasonalValue(data, pattern, slot) ==
    LET base == Mean(LastN(data, 12))
    IN IF Mean(pattern) = 0 THEN base
       ELSE MulDiv(base, MulDiv(pattern[slot + 1], ONE, Mean(pattern)), ONE)

History24 == get_sales_history(sales, 24)
\* a stored history that differs from the present one only in observations
\* older than the 24-month fetch, and is long enough to be evaluated
DiffersInOldOnly(h) ==
    /\ h # sales
    /\ get_sales_history(h, 24) = History24
    /\ get_sales_history(h, 36) # History36
    /\ Len(get_sales_history(h, 36)) >= 12
\* the predicted values of an evaluation of history h
PredictedFor(h) ==
    evaluate_forecast_accuracy(h, "ok", "ok", call.method, 0).predicted

C26_AllOrNothing ==
    (InGenerate /\ ~ret.isNone) =>
        /\ saved = <<>> \/ saved = ret.value
        /\ PersistRaised => saved = <<>>

\* the second of two save_forecast calls raised and the first record stays
C26_PartialForecastPersisted ==
    /\ InGenerate
    /\ Len(ret.value) = 2
    /\ PersistRaised
    /\ resp.status = 500
    /\ saved = <<ret.value[1]>>

(***************************************************************************)
(* Properties of the stock tables                                          *)
(***************************************************************************)
\* call i ran the stock statement of an 'add' on the pair
IsAddOn(i, product_id, warehouse_id) ==
    /\ calls[i].operation = "add"
    /\ calls[i].pc # "stock_raised"
    /\ calls[i].product_id = product_id
    /\ calls[i].warehouse_id = warehouse_id
\* the total quantity added to the pair
Added(product_id, warehouse_id) ==
    Sum([i \in 1..Len(calls) |->
            IF IsAddOn(i, product_id, warehouse_id)
            THEN calls[i].quantity_change ELSE 0])

\* C27: stock levels never become negative: after any sequence of
\* Product.update_stock calls with quantity_change >= 0 (operation 'add'
\* upserts current_stock + quantity, any other operation sets current_stock
\* to max(0, current_stock - quantity) and is a no-op when the (product,
\* warehouse) row does not exist), every stock_levels row has
\* current_stock >= 0.
C27_StockNonNegative ==
    \A r \in stock_levels :
        /\ r.current_stock >= 0
        /\ r.current_stock <= Added(r.product_id, r.warehouse_id)
        /\ \E i \in 1..Len(calls) : IsAddOn(i, r.product_id, r.warehouse_id)

\* a stock of 1 from which 2 were subtracted
C27_Witness ==
    /\ Len(calls) = 2
    /\ calls[1].operation = "add" /\ calls[1].quantity_change = 1
    /\ calls[2].operation = "subtract" /\ calls[2].quantity_change = 2
    /\ calls[1].product_id = calls[2].product_id
    /\ calls[1].warehouse_id = calls[2].warehouse_id
    /\ calls[1].pc = "done" /\ calls[2].pc = "done"
    /\ \E r \in stock_levels : r.current_stock = 0

\* the calls made on warehouse w
CallsOn(w) == {i \in 1..Len(calls) : calls[i].warehouse_id = w}
\* every call on warehouse w has returned normally
AllCompleted(w) ==
    /\ CallsOn(w) # {}
    /\ \A i \in CallsOn(w) : calls[i].pc = "done"
\* SUM(current_stock) over the stock_levels rows of warehouse w
StockOf(w) == SumStock({r \in stock_levels : r.warehouse_id = w})

\* C28: warehouse utilization follows stock: after every completed
\* Product.update_stock call, and after any interleaving of concurrent
\* update_stock calls on the same warehouse once all of them have completed,
\* warehouses.current_utilization of that warehouse equals the sum of
\* current_stock over its stock_levels rows.
C28_UtilizationFollowsStock ==
    \A w \in WarehouseIds : AllCompleted(w) => warehouses[w] = StockOf(w)

\* two calls on one warehouse, both past the stock statement before either
\* recomputed the utilization, have completed
C28_Witness ==
    \E w \in WarehouseIds :
        /\ AllCompleted(w)
        /\ Len(calls) = 2
        /\ CallsOn(w) = {1, 2}
        /\ calls[1].overlapped \/ calls[2].overlapped
        /\ calls[1].product_id # calls[2].product_id
        /\ warehouses[w] = MaxStock
        /\ StockOf(w) = MaxStock

(***************************************************************************)
(* Properties of the order tables                                          *)
(***************************************************************************)
\* the order_items rows of an order
ItemsOf(order_id) ==
    {i \in 1..Len(order_items) : order_items[i].order_id = order_id}

RECURSIVE SumTotalPrice(_)
SumTotalPrice(ids) ==
    IF ids = {} THEN 0
    ELSE LET i == CHOOSE x \in ids : TRUE
         IN order_items[i].total_price + SumTotalPrice(ids \ {i})

\* C29: after create_order_with_items returned or failed part-way, every
\* stored order's total_amount is the sum of total_price over the order_items
\* stored for it, and every stored item's total_price is quantity * unit_price
C29_TotalIsSumOfItems ==
    /\ \A i \in 1..Len(order_items) :
          order_items[i].total_price
              = order_items[i].quantity * order_items[i].unit_price
    /\ \A id \in 1..Len(orders) :
          orders[id].total_amount = SumTotalPrice(ItemsOf(id))

\* a call failed after it stored an item with a price: the order is stored
\* with the total it was inserted with
C29_PartialOrderStored ==
    /\ order_call.pc = "raised"
    /\ order_call.order_id # 0
    /\ order_call.created >= 1
    /\ SumTotalPrice(ItemsOf(order_call.order_id)) > 0
    /\ orders[order_call.order_id].total_amount = 0

(***************************************************************************)
(* Properties of the schema initialisation                                 *)
(***************************************************************************)
\* C30: after a run of initialize_schema an INSERT statement of the schema
\* file was executed if and only if its table had zero rows when the run
\* counted it (so a fresh database is seeded and a second run adds nothing),
\* and the run did not raise
C30_SeedsExactlyEmptyTables ==
    schema_call.runs > 0 =>
        /\ ~schema_call.raised
        /\ \A i \in 1..Len(schema_call.seed_pairs) :
              LET t == schema_call.seed_pairs[i]
              IN t # NoTable =>
                    (i \in schema_call.executed
                        <=> /\ schema_call.counts[t].counted
                            /\ schema_call.counts[t].rows = 0)

\* a run on a fresh database whose schema file has an INSERT: the table was
\* counted with zero rows, no INSERT was executed and the table is empty
C30_FreshDatabaseNotSeeded ==
    /\ schema_call.runs = 1
    /\ schema_call.file
    /\ \E i \in 1..Len(schema_call.seed_pairs) :
          LET t == schema_call.seed_pairs[i]
          IN /\ t # NoTable
             /\ schema_call.counts[t].counted
             /\ schema_call.counts[t].rows = 0
             /\ schema_call.executed = {}
             /\ tables[t] = 0

====
